---- MODULE Spec2Model ----
(***************************************************************************)
(* A model of keebler's ELF decoders and encoders (src/src/lib.rs).        *)
(*                                                                         *)
(* A byte slice &input[o..] of a buffer is the pair (buffer, o): every     *)
(* slice the parsers pass on ends where the buffer ends.  A u8 or a u16 is *)
(* a number.  A u32 or a u64 is the tuple of its 4 or 8 base-256 digits,   *)
(* most significant first, so that the whole range of the type is covered. *)
(* A parse result is Match(rem, val), NoMatch(rem) or Panic.               *)
(***************************************************************************)
EXTENDS Integers, Sequences, FiniteSets

VARIABLES
    input,  \* the byte buffer handed to the parser
    st,     \* EiIdentParser: position in the chain, cursor, fields so far
    A,      \* address width of the instantiation: 32 or 64
    E,      \* data encoding of the instantiation: "Little" or "Big"
    hdr,    \* the FileHeader value handed to the serializer
    ident,  \* the EiIdent value of a composite handed to the serializer
    ser,    \* the bytes the serializer produced
    dec,    \* the result of FileHeaderParser
    phase   \* position of the encode / decode scenario

vars == <<input, st, A, E, hdr, ident, ser, dec, phase>>

(***************************************************************************)
(* Bounds of the model.                                                    *)
(***************************************************************************)
\* sample byte values are 0..MaxSampleByte and 255
MaxSampleByte == 3
\* buffers carry up to MaxExtra bytes after the region a parser reads
MaxExtra == 1
\* tables carry up to MaxEntries entries
MaxEntries == 2

SampleBytes == (0..MaxSampleByte) \cup {255}
Bytes == 0..255

(***************************************************************************)
(* Sequences and parse results.                                            *)
(***************************************************************************)
Reverse(s) == [i \in 1..Len(s) |-> s[Len(s) + 1 - i]]

\* the bytes of &input[o..] limited to n elements: input.iter().take(n)
Take(buf, o, n) ==
    SubSeq(buf, o + 1, IF o + n <= Len(buf) THEN o + n ELSE Len(buf))

Match(rem, val) == [status |-> "Match", rem |-> rem, val |-> val]
NoMatch(rem) == [status |-> "NoMatch", rem |-> rem]
Panic == [status |-> "Panic"]

(***************************************************************************)
(* Byte-level parsers.  The combinators of the parcel crate are modelled   *)
(* at the places lib.rs uses them: join and and_then run their parsers in  *)
(* sequence and stop at the first that does not match, one_of returns the  *)
(* first alternative that matches, take_n matches exactly n times or not   *)
(* at all.                                                                 *)
(***************************************************************************)
\* parcel::parsers::byte::expect_byte
expect_byte(expected, buf, o) ==
    IF o < Len(buf) /\ buf[o + 1] = expected
    THEN Match(o + 1, buf[o + 1])
    ELSE NoMatch(o)

\* parcel::parsers::byte::any_byte
any_byte(buf, o) ==
    IF o < Len(buf) THEN Match(o + 1, buf[o + 1]) ELSE NoMatch(o)

\* parcel::take_n(any_byte(), n): exactly n bytes or no match
take_n_bytes(n, buf, o) ==
    IF o + n <= Len(buf)
    THEN Match(o + n, SubSeq(buf, o + 1, o + n))
    ELSE NoMatch(o)

\* parcel::one_of over expect_byte(code).map(|_| variant), in table order
RECURSIVE one_of_bytes(_, _, _, _)
one_of_bytes(table, i, buf, o) ==
    IF i > Len(table) THEN NoMatch(o)
    ELSE LET r == expect_byte(table[i][1], buf, o)
         IN  IF r.status = "Match" THEN Match(r.rem, table[i][2])
             ELSE one_of_bytes(table, i + 1, buf, o)

Magic == <<\h7F, \h45, \h4C, \h46>>

expect_bytes(expected, buf, o) ==
    LET expected_len == Len(expected)
        next == Take(buf, o, expected_len)
    IN  IF next = expected THEN Match(o + expected_len, next) ELSE NoMatch(o)

(***************************************************************************)
(* The identification block.                                               *)
(***************************************************************************)
EiClass == << <<\h01, "ThirtyTwoBit">>, <<\h02, "SixtyFourBit">> >>

\* the two data encodings with their codes exchanged
EiDataSwapped == << <<\h01, "Big">>, <<\h02, "Little">> >>

EiData == << <<\h01, "Little">>, <<\h02, "Big">> >>

EiVersion == << <<\h01, "One">> >>

EiOsAbi ==
    << <<\h00, "SysV">>,    <<\h01, "HPUX">>,     <<\h02, "NetBSD">>,
       <<\h03, "Linux">>,   <<\h04, "GNUHurd">>,  <<\h06, "Solaris">>,
       <<\h07, "AIX">>,     <<\h08, "IRIX">>,     <<\h09, "FreeBSD">>,
       <<\h0A, "Tru64">>,   <<\h0B, "Novell">>,   <<\h0C, "OpenBSD">>,
       <<\h0D, "OpenVMS">>, <<\h0E, "NonStop">>,  <<\h0F, "Aros">>,
       <<\h10, "Fenix">>,   <<\h11, "CloudABI">>, <<\h12, "OpenVOS">> >>

EiAbiVersion == << <<\h00, "Zero">>, <<\h01, "One">> >>

EiClassParser(buf, o) == one_of_bytes(EiClass, 1, buf, o)
EiDataParser(buf, o) == one_of_bytes(EiData, 1, buf, o)
EiVersionParser(buf, o) == one_of_bytes(EiVersion, 1, buf, o)
EiOsAbiParser(buf, o) == one_of_bytes(EiOsAbi, 1, buf, o)
EiAbiVersionParser(buf, o) == one_of_bytes(EiAbiVersion, 1, buf, o)

PaddingLen == 7

NoField == "-"

\* the state EiIdentParser starts in on a buffer
IdentStart ==
    [pc |-> "magic", off |-> 0, failedAt |-> NoField, result |-> NoField,
     ei_class |-> NoField, ei_data |-> NoField, ei_version |-> NoField,
     ei_osabi |-> NoField, ei_abiversion |-> NoField]

\* a parser of the chain failed: every join hands back the input it was given
IdentFail(s) ==
    [s EXCEPT !.pc = "done", !.failedAt = s.pc, !.result = NoMatch(0)]

\* one parser of the chain of EiIdentParser, applied at the cursor
IdentStep(buf, s) ==
    LET r == CASE s.pc = "magic"      -> expect_bytes(Magic, buf, s.off)
               [] s.pc = "class"      -> EiClassParser(buf, s.off)
               [] s.pc = "data"       -> EiDataParser(buf, s.off)
               [] s.pc = "version"    -> EiVersionParser(buf, s.off)
               [] s.pc = "osabi"      -> EiOsAbiParser(buf, s.off)
               [] s.pc = "abiversion" -> EiAbiVersionParser(buf, s.off)
               [] s.pc = "padding"    -> take_n_bytes(PaddingLen, buf, s.off)
    IN  IF r.status # "Match" THEN IdentFail(s)
        ELSE CASE s.pc = "magic" ->
                    [s EXCEPT !.pc = "class", !.off = r.rem]
               [] s.pc = "class" ->
                    [s EXCEPT !.pc = "data", !.off = r.rem, !.ei_class = r.val]
               [] s.pc = "data" ->
                    [s EXCEPT !.pc = "version", !.off = r.rem, !.ei_data = r.val]
               [] s.pc = "version" ->
                    [s EXCEPT !.pc = "osabi", !.off = r.rem,
                              !.ei_version = r.val]
               [] s.pc = "osabi" ->
                    [s EXCEPT !.pc = "abiversion", !.off = r.rem,
                              !.ei_osabi = r.val]
               [] s.pc = "abiversion" ->
                    [s EXCEPT !.pc = "padding", !.off = r.rem,
                              !.ei_abiversion = r.val]
               [] s.pc = "padding" ->
                    [s EXCEPT !.pc = "done", !.off = r.rem,
                              !.result = Match(r.rem,
                                  [ei_class |-> s.ei_class,
                                   ei_data |-> s.ei_data,
                                   ei_version |-> s.ei_version,
                                   ei_osabi |-> s.ei_osabi,
                                   ei_abiversion |-> s.ei_abiversion])]

RECURSIVE IdentRun(_, _)
IdentRun(buf, s) ==
    IF s.pc = "done" THEN s.result ELSE IdentRun(buf, IdentStep(buf, s))

\* EiIdentParser.parse(input)
EiIdentParser(buf) == IdentRun(buf, IdentStart)

(***************************************************************************)
(* EiIdentParser run on a buffer, one parser of its chain at a time.       *)
(***************************************************************************)
Fill(n, b) == [i \in 1..n |-> b]

IdentBlock(class, data, version, osabi, abiversion, pad) ==
    Magic \o <<class, data, version, osabi, abiversion>> \o pad

Paddings == {Fill(PaddingLen, 0), Fill(PaddingLen, 255)}

Tails == {Fill(k, 0) : k \in 0..MaxExtra}

\* blocks that are valid but for the OS/ABI byte, which takes every value
OsAbiBlocks ==
    {IdentBlock(c, d, 1, os, ab, Fill(PaddingLen, 0)) :
        c \in {1, 2}, d \in {1, 2}, os \in Bytes, ab \in {0, 1}}

\* blocks with the magic and sampled values of every other byte
SampledBlocks ==
    {IdentBlock(c, d, v, os, ab, pad) \o t :
        c \in SampleBytes, d \in SampleBytes, v \in SampleBytes,
        os \in {\h00, \h05, \h12, \h13}, ab \in SampleBytes,
        pad \in Paddings, t \in Tails}

\* buffers whose first four bytes are not the magic, of every length
BadMagicBuffers ==
    {SubSeq(Magic, 1, n) : n \in 0..3}
    \cup {<<255, 255, 255, 255, 255>>}
    \cup {[b EXCEPT ![i] = x] :
            b \in {Magic}
                  \cup {IdentBlock(c, 1, 1, 0, 0, Fill(PaddingLen, 0)) \o t :
                            c \in {1, 2}, t \in Tails},
            i \in 1..4, x \in SampleBytes}

\* valid blocks cut short
TruncatedBlocks ==
    {SubSeq(IdentBlock(c, d, 1, 0, 0, Fill(PaddingLen, 0)), 1, n) :
        c \in {1, 2}, d \in {1, 2}, n \in 4..15}

IdentInputs ==
    OsAbiBlocks \cup SampledBlocks \cup BadMagicBuffers \cup TruncatedBlocks

Idle ==
    /\ A = NoField /\ E = NoField /\ hdr = NoField /\ ident = NoField
    /\ ser = NoField /\ dec = NoField /\ phase = NoField

IdentInit ==
    /\ input \in IdentInputs
    /\ st = IdentStart
    /\ Idle

IdentAt(stage) ==
    /\ st.pc = stage
    /\ st' = IdentStep(input, st)
    /\ UNCHANGED <<input, A, E, hdr, ident, ser, dec, phase>>

ParseMagic == IdentAt("magic")
ParseClass == IdentAt("class")
ParseData == IdentAt("data")
ParseVersion == IdentAt("version")
ParseOsAbi == IdentAt("osabi")
ParseAbiVersion == IdentAt("abiversion")
SkipPadding == IdentAt("padding")

IdentNext ==
    \/ ParseMagic
    \/ ParseClass
    \/ ParseData
    \/ ParseVersion
    \/ ParseOsAbi
    \/ ParseAbiVersion
    \/ SkipPadding

SpecIdent == IdentInit /\ [][IdentNext]_vars

(***************************************************************************)
(* Properties of the identification decode, checked under SpecIdent.       *)
(***************************************************************************)
HasMagic(buf) == Len(buf) >= 4 /\ SubSeq(buf, 1, 4) = Magic

\* the byte at offset i of a buffer, or -1 when the buffer ends before it
ByteAt(buf, i) == IF i < Len(buf) THEN buf[i + 1] ELSE -1

IdentDone == st.pc = "done"
IdentMatched == IdentDone /\ st.result.status = "Match"
IdentFailed == IdentDone /\ st.result.status = "NoMatch"

\* a whole block whose magic, class, data encoding and version are valid
ValidUpToVersion(buf) ==
    /\ Len(buf) >= 16
    /\ HasMagic(buf)
    /\ ByteAt(buf, 4) \in {1, 2}
    /\ ByteAt(buf, 5) \in {1, 2}
    /\ ByteAt(buf, 6) = 1

KnownOsAbi == {EiOsAbi[i][1] : i \in 1..Len(EiOsAbi)}

\* what the open enumerations of the format decode a byte to
OpenVariant(table, byte) ==
    IF \E i \in 1..Len(table) : table[i][1] = byte
    THEN table[CHOOSE i \in 1..Len(table) : table[i][1] = byte][2]
    ELSE <<"Unknown", byte>>

\* C6: every block with the magic, class 1 or 2, data encoding 1 or 2 and
\* version 1 decodes, whatever its osabi, abiversion and padding bytes hold,
\* and each decoded field corresponds to the byte at offsets 4 to 8.
C6_ValidIdentAlwaysDecodes ==
    (IdentDone /\ ValidUpToVersion(input)) =>
        /\ st.result.status = "Match"
        /\ st.result.val.ei_class = OpenVariant(EiClass, ByteAt(input, 4))
        /\ st.result.val.ei_data = OpenVariant(EiData, ByteAt(input, 5))
        /\ st.result.val.ei_version = OpenVariant(EiVersion, ByteAt(input, 6))
        /\ st.result.val.ei_osabi = OpenVariant(EiOsAbi, ByteAt(input, 7))
        /\ st.result.val.ei_abiversion
              = OpenVariant(EiAbiVersion, ByteAt(input, 8))

\* C7: a buffer whose first four bytes are not the magic fails with an
\* outcome that names the magic as the cause: no decoded value, and not the
\* outcome of a failure on a buffer that does start with the magic.
C7_MalformedMagicOutcome ==
    (IdentDone /\ ~HasMagic(input)) =>
        /\ st.result.status = "NoMatch"
        /\ \A b \in SampledBlocks :
              EiIdentParser(b).status = "NoMatch"
                  => EiIdentParser(b) # st.result

\* C8: class 1 is ThirtyTwoBit and 2 SixtyFourBit, data encoding 1 is Little
\* and 2 Big, the version is 1; any other value of one of the three bytes
\* fails the decode; the bytes are checked in the order class, data, version.
C8_ClassDataVersion ==
    /\ st.ei_class # NoField =>
          /\ st.ei_class = "ThirtyTwoBit" <=> ByteAt(input, 4) = 1
          /\ st.ei_class = "SixtyFourBit" <=> ByteAt(input, 4) = 2
    /\ st.ei_data # NoField =>
          /\ st.ei_data = "Little" <=> ByteAt(input, 5) = 1
          /\ st.ei_data = "Big" <=> ByteAt(input, 5) = 2
    /\ st.ei_version # NoField =>
          /\ st.ei_version = "One"
          /\ ByteAt(input, 6) = 1
    /\ (IdentDone /\ HasMagic(input)
          /\ (\/ ByteAt(input, 4) \notin {1, 2}
              \/ ByteAt(input, 5) \notin {1, 2}
              \/ ByteAt(input, 6) # 1))
          => st.result.status = "NoMatch"
    /\ st.ei_data # NoField => st.ei_class # NoField
    /\ st.ei_version # NoField => st.ei_data # NoField
    /\ (IdentDone /\ HasMagic(input)) =>
          /\ st.failedAt = "class" <=> ByteAt(input, 4) \notin {1, 2}
          /\ st.failedAt = "data" <=>
                ByteAt(input, 4) \in {1, 2} /\ ByteAt(input, 5) \notin {1, 2}
          /\ st.failedAt = "version" <=>
                /\ ByteAt(input, 4) \in {1, 2}
                /\ ByteAt(input, 5) \in {1, 2}
                /\ ByteAt(input, 6) # 1

\* a block of class 2 with a bad data encoding and a bad version has failed,
\* at the data encoding
C8_Witness ==
    /\ IdentFailed
    /\ st.failedAt = "data"
    /\ st.ei_class = "SixtyFourBit"
    /\ ByteAt(input, 4) = 2
    /\ ByteAt(input, 5) \notin {1, 2}
    /\ ByteAt(input, 6) # 1

\* C9: the OS/ABI byte never fails the decode: an otherwise valid block
\* decodes for each of the 256 values of byte 7, to the known variant for the
\* 18 table values and to Unknown carrying the raw byte otherwise.
C9_OsAbiNeverFails ==
    (IdentDone /\ ValidUpToVersion(input) /\ ByteAt(input, 8) \in {0, 1}) =>
        /\ st.result.status = "Match"
        /\ st.result.val.ei_osabi = OpenVariant(EiOsAbi, ByteAt(input, 7))

\* C10: the ABI-version byte decodes 0 to Zero and 1 to One, and any other
\* value to Unknown instead of failing the decode.
C10_AbiVersionOpen ==
    (IdentDone /\ ValidUpToVersion(input) /\ ByteAt(input, 7) \in KnownOsAbi)
        =>
        /\ st.result.status = "Match"
        /\ st.result.val.ei_abiversion
              = OpenVariant(EiAbiVersion, ByteAt(input, 8))

(***************************************************************************)
(* Fixed-width integers.                                                   *)
(***************************************************************************)
\* the k base-256 digits of n, most significant first
RECURSIVE Digits(_, _)
Digits(n, k) ==
    IF k = 0 THEN <<>> ELSE Digits(n \div 256, k - 1) \o <<n % 256>>

U32(n) == Digits(n, 4)
U64(n) == Digits(n, 8)

\* the two bytes of a u16 read in the other order
U16FromBytesSwapped(data, b) ==
    IF data = "Little" THEN 256 * b[1] + b[2] ELSE b[1] + 256 * b[2]

\* u16::from_le_bytes / u16::from_be_bytes
U16FromBytes(data, b) ==
    IF data = "Little" THEN b[1] + 256 * b[2] ELSE 256 * b[1] + b[2]

\* u32 / u64 ::from_le_bytes / ::from_be_bytes
WideFromBytes(data, b) == IF data = "Little" THEN Reverse(b) ELSE b

\* u16::to_le_bytes / u16::to_be_bytes
U16ToBytes(data, v) ==
    IF data = "Little" THEN <<v % 256, v \div 256>> ELSE <<v \div 256, v % 256>>

\* u32 / u64 ::to_le_bytes / ::to_be_bytes
WideToBytes(data, v) == IF data = "Little" THEN Reverse(v) ELSE v

match_u16(endianness, buf, o) ==
    LET r == take_n_bytes(2, buf, o)
    IN  IF r.status = "Match"
        THEN Match(r.rem, U16FromBytes(endianness, r.val))
        ELSE r

match_u32(endianness, buf, o) ==
    LET r == take_n_bytes(4, buf, o)
    IN  IF r.status = "Match"
        THEN Match(r.rem, WideFromBytes(endianness, r.val))
        ELSE r

match_u64(endianness, buf, o) ==
    LET r == take_n_bytes(8, buf, o)
    IN  IF r.status = "Match"
        THEN Match(r.rem, WideFromBytes(endianness, r.val))
        ELSE r

expect_u16(endianness, expected, buf, o) ==
    LET r == match_u16(endianness, buf, o)
    IN  IF r.status = "Match" /\ r.val = expected
        THEN Match(r.rem, expected)
        ELSE NoMatch(o)

expect_u32Consuming(endianness, expected, buf, o) ==
    LET r == match_u32(endianness, buf, o)
    IN  IF r.status = "Match" /\ r.val = expected
        THEN Match(r.rem, expected)
        ELSE IF r.status = "Match" THEN NoMatch(r.rem) ELSE NoMatch(o)

expect_u32(endianness, expected, buf, o) ==
    LET r == match_u32(endianness, buf, o)
    IN  IF r.status = "Match" /\ r.val = expected
        THEN Match(r.rem, expected)
        ELSE NoMatch(o)

\* parcel::take_n(match_u16(encoding), n): exactly n values or no match
RECURSIVE take_n_u16(_, _, _, _)
take_n_u16(n, endianness, buf, o) ==
    IF n = 0 THEN Match(o, <<>>)
    ELSE LET r == match_u16(endianness, buf, o)
         IN  IF r.status # "Match" THEN NoMatch(o)
             ELSE LET rest == take_n_u16(n - 1, endianness, buf, r.rem)
                  IN  IF rest.status # "Match" THEN NoMatch(o)
                      ELSE Match(rest.rem, <<r.val>> \o rest.val)

(***************************************************************************)
(* The enumerated fields of the file header.                               *)
(***************************************************************************)
TypeShifted ==
    << <<\h00, "None">>, <<\h01, "Rel">>, <<\h02, "Exec">>, <<\h03, "Dyn">>,
       <<\h04, "Core">>, <<\hFE01, "LoOs">>, <<\hFEFF, "HiOs">>,
       <<\hFF00, "LoProc">>, <<\hFFFF, "HiProc">> >>

Type ==
    << <<\h00, "None">>, <<\h01, "Rel">>, <<\h02, "Exec">>, <<\h03, "Dyn">>,
       <<\h04, "Core">>, <<\hFE00, "LoOs">>, <<\hFEFF, "HiOs">>,
       <<\hFF00, "LoProc">>, <<\hFFFF, "HiProc">> >>

\* the discriminants of the enum Machine
Machine ==
    << <<\h00, "None">>,      <<\h01, "M32">>,       <<\h02, "SPARC">>,
       <<\h03, "X386">>,      <<\h04, "M68k">>,      <<\h05, "M88k">>,
       <<\h06, "IntelMCU">>,  <<\h07, "Intel80860">>, <<\h08, "MIPS">>,
       <<\h09, "S370">>,      <<\h0A, "MIPSRS3LE">>, <<\h0E, "PARISC">>,
       <<\h13, "I960">>,      <<\h14, "PPC">>,       <<\h15, "PPC64">>,
       <<\h16, "S390">>,      <<\h24, "V800">>,      <<\h25, "FR20">>,
       <<\h26, "RH32">>,      <<\h27, "RCE">>,       <<\h28, "ARM">>,
       <<\h29, "Alpha">>,     <<\h2A, "SH">>,        <<\h2B, "SPARCV9">>,
       <<\h2C, "Tricore">>,   <<\h2D, "ARC">>,       <<\h2E, "H8300">>,
       <<\h2F, "H8_300H">>,   <<\h30, "H8s">>,       <<\h31, "H8500">>,
       <<\h32, "IA64">>,      <<\h33, "MIPSX">>,     <<\h34, "Coldfire">>,
       <<\h35, "M68HC12">>,   <<\h36, "MMA">>,       <<\h37, "PCP">>,
       <<\h38, "NCPU">>,      <<\h39, "NDR1">>,      <<\h3A, "Starcore">>,
       <<\h3B, "ME16">>,      <<\h3C, "ST100">>,     <<\h3D, "TinyJ">>,
       <<\h3E, "X86_64">>,    <<\h8C, "S320C600">>,  <<\hB7, "AARCH64">>,
       <<\hF3, "RISCV">>,     <<\hF7, "BPF">>,       <<\hFE, "MCS6502">>,
       <<\h101, "WDC65C817">> >>

\* the arms of Machine::try_from(u16)
MachineTryFrom ==
    << <<\h00, "None">>,      <<\h01, "M32">>,       <<\h02, "SPARC">>,
       <<\h03, "X386">>,      <<\h04, "M68k">>,      <<\h05, "M88k">>,
       <<\h06, "IntelMCU">>,  <<\h07, "Intel80860">>, <<\h08, "MIPS">>,
       <<\h09, "S370">>,      <<\h0A, "MIPSRS3LE">>, <<\h0E, "PARISC">>,
       <<\h13, "I960">>,      <<\h14, "PPC">>,       <<\h15, "PPC64">>,
       <<\h16, "S390">>,      <<\h24, "V800">>,      <<\h25, "FR20">>,
       <<\h26, "RH32">>,      <<\h27, "RCE">>,       <<\h28, "ARM">>,
       <<\h29, "Alpha">>,     <<\h2A, "SH">>,        <<\h2B, "SPARCV9">>,
       <<\h2C, "Tricore">>,   <<\h2D, "ARC">>,       <<\h2E, "H8300">>,
       <<\h2F, "H8_300H">>,   <<\h30, "H8s">>,       <<\h31, "H8500">>,
       <<\h32, "IA64">>,      <<\h33, "MIPSX">>,     <<\h34, "Coldfire">>,
       <<\h35, "M68HC12">>,   <<\h36, "MMA">>,       <<\h37, "PCP">>,
       <<\h38, "NCPU">>,      <<\h39, "NDR1">>,      <<\h3A, "Starcore">>,
       <<\h3B, "ME16">>,      <<\h3C, "ST100">>,     <<\h3D, "TinyJ">>,
       <<\h3E, "X86_64">>,    <<\h8C, "S320C600">>,  <<\hB9, "AARCH64">>,
       <<\hFA, "RISCV">>,     <<\hFB, "BPF">>,       <<\hFE, "MCS6502">>,
       <<\h101, "WDC65C817">> >>

Version == << <<U32(1), "One">> >>

\* `variant as u16` / `variant as u32`: the discriminant of a variant
Discriminant(table, variant) ==
    table[CHOOSE i \in 1..Len(table) : table[i][2] = variant][1]

Variants(table) == {table[i][2] : i \in 1..Len(table)}
Codes(table) == {table[i][1] : i \in 1..Len(table)}

\* Machine::try_from(value): Ok(variant) or Err
MachineFromU16(value) ==
    IF value \in Codes(MachineTryFrom)
    THEN [ok |-> TRUE,
          val |-> MachineTryFrom[CHOOSE i \in 1..Len(MachineTryFrom) :
                                    MachineTryFrom[i][1] = value][2]]
    ELSE [ok |-> FALSE]

\* parcel::one_of over expect_u16(data, code).map(|_| variant)
RECURSIVE one_of_u16(_, _, _, _, _)
one_of_u16(table, i, data, buf, o) ==
    IF i > Len(table) THEN NoMatch(o)
    ELSE LET r == expect_u16(data, table[i][1], buf, o)
         IN  IF r.status = "Match" THEN Match(r.rem, table[i][2])
             ELSE one_of_u16(table, i + 1, data, buf, o)

\* TypeParser::parse_type
TypeParser(data, buf, o) == one_of_u16(Type, 1, data, buf, o)

\* MachineParser::parse: the unwrap panics on fewer than two bytes
MachineParser(data, buf, o) ==
    LET mcode == Take(buf, o, 2)
    IN  IF Len(mcode) # 2 THEN Panic
        ELSE LET m == MachineFromU16(U16FromBytes(data, mcode))
             IN  IF m.ok THEN Match(o + 2, m.val) ELSE NoMatch(o)

VersionParserLittle(data, buf, o) ==
    LET r == expect_u32("Little", Version[1][1], buf, o)
    IN  IF r.status = "Match" THEN Match(r.rem, Version[1][2]) ELSE r

\* VersionParser::parse
VersionParser(data, buf, o) ==
    LET r == expect_u32(data, Version[1][1], buf, o)
    IN  IF r.status = "Match" THEN Match(r.rem, Version[1][2]) ELSE r

(***************************************************************************)
(* The file header.                                                        *)
(***************************************************************************)
\* FileHeaderParser parses &input[16..]
IdentLen == 16

\* match_u32(encoding) for Elf32Addr, match_u64(encoding) for Elf64Addr
match_addr(width, data, buf, o) ==
    IF width = 32 THEN match_u32(data, buf, o) ELSE match_u64(data, buf, o)

FileHeaderParserChecked(width, data, buf) ==
    IF Len(buf) < IdentLen THEN Panic
    ELSE IF SubSeq(buf, 1, 4) # Magic THEN NoMatch(0)
    ELSE
    LET o == IdentLen
        type == TypeParser(data, buf, o)
    IN  IF type.status # "Match" THEN NoMatch(o) ELSE
    LET machine == MachineParser(data, buf, type.rem)
    IN  IF machine.status = "Panic" THEN Panic
        ELSE IF machine.status # "Match" THEN NoMatch(o) ELSE
    LET version == VersionParser(data, buf, machine.rem)
    IN  IF version.status # "Match" THEN NoMatch(o) ELSE
    LET entry_point == match_addr(width, data, buf, version.rem)
    IN  IF entry_point.status # "Match" THEN NoMatch(o) ELSE
    LET ph_offset == match_addr(width, data, buf, entry_point.rem)
    IN  IF ph_offset.status # "Match" THEN NoMatch(o) ELSE
    LET sh_offset == match_addr(width, data, buf, ph_offset.rem)
    IN  IF sh_offset.status # "Match" THEN NoMatch(o) ELSE
    LET flags == match_u32(data, buf, sh_offset.rem)
    IN  IF flags.status # "Match" THEN NoMatch(o) ELSE
    LET two_byte_fields == take_n_u16(6, data, buf, flags.rem)
    IN  IF two_byte_fields.status # "Match" THEN NoMatch(o) ELSE
        Match(two_byte_fields.rem,
              [type |-> type.val,
               machine |-> machine.val,
               version |-> version.val,
               entry_point |-> entry_point.val,
               ph_offset |-> ph_offset.val,
               sh_offset |-> sh_offset.val,
               flags |-> flags.val,
               eh_size |-> two_byte_fields.val[1],
               phent_size |-> two_byte_fields.val[2],
               phnum |-> two_byte_fields.val[3],
               shent_size |-> two_byte_fields.val[4],
               shnum |-> two_byte_fields.val[5],
               shstrndx |-> two_byte_fields.val[6]])

\* FileHeaderParser<A, E>::parse
FileHeaderParser(width, data, buf) ==
    IF Len(buf) < IdentLen THEN Panic
    ELSE
    LET o == IdentLen
        type == TypeParser(data, buf, o)
    IN  IF type.status # "Match" THEN NoMatch(o) ELSE
    LET machine == MachineParser(data, buf, type.rem)
    IN  IF machine.status = "Panic" THEN Panic
        ELSE IF machine.status # "Match" THEN NoMatch(o) ELSE
    LET version == VersionParser(data, buf, machine.rem)
    IN  IF version.status # "Match" THEN NoMatch(o) ELSE
    LET entry_point == match_addr(width, data, buf, version.rem)
    IN  IF entry_point.status # "Match" THEN NoMatch(o) ELSE
    LET ph_offset == match_addr(width, data, buf, entry_point.rem)
    IN  IF ph_offset.status # "Match" THEN NoMatch(o) ELSE
    LET sh_offset == match_addr(width, data, buf, ph_offset.rem)
    IN  IF sh_offset.status # "Match" THEN NoMatch(o) ELSE
    LET flags == match_u32(data, buf, sh_offset.rem)
    IN  IF flags.status # "Match" THEN NoMatch(o) ELSE
    LET two_byte_fields == take_n_u16(6, data, buf, flags.rem)
    IN  IF two_byte_fields.status # "Match" THEN NoMatch(o) ELSE
        Match(two_byte_fields.rem,
              [type |-> type.val,
               machine |-> machine.val,
               version |-> version.val,
               entry_point |-> entry_point.val,
               ph_offset |-> ph_offset.val,
               sh_offset |-> sh_offset.val,
               flags |-> flags.val,
               eh_size |-> two_byte_fields.val[1],
               phent_size |-> two_byte_fields.val[2],
               phnum |-> two_byte_fields.val[3],
               shent_size |-> two_byte_fields.val[4],
               shnum |-> two_byte_fields.val[5],
               shstrndx |-> two_byte_fields.val[6]])

\* Serialize<A, E>::serialize for FileHeader<A>
Serialize(width, data, h) ==
    U16ToBytes(data, Discriminant(Type, h.type))
    \o U16ToBytes(data, Discriminant(Machine, h.machine))
    \o WideToBytes(data, Discriminant(Version, h.version))
    \o WideToBytes(data, h.entry_point)
    \o WideToBytes(data, h.ph_offset)
    \o WideToBytes(data, h.sh_offset)
    \o WideToBytes(data, h.flags)
    \o U16ToBytes(data, h.eh_size)
    \o U16ToBytes(data, h.phent_size)
    \o U16ToBytes(data, h.phnum)
    \o U16ToBytes(data, h.shent_size)
    \o U16ToBytes(data, h.shnum)
    \o U16ToBytes(data, h.shstrndx)

\* From<EiIdent> for Vec<u8>
EiIdentToBytes(src) ==
    <<Discriminant(EiClass, src.ei_class),
      Discriminant(EiClass, src.ei_class),
      Discriminant(EiVersion, src.ei_version),
      Discriminant(EiOsAbi, src.ei_osabi),
      Discriminant(EiAbiVersion, src.ei_abiversion)>>

\* From<ElfHeader32Bit<E>> for Vec<u8>
ElfHeader32BitToBytes(data, ei_ident, file_header) ==
    EiIdentToBytes(ei_ident) \o Serialize(32, data, file_header)

(***************************************************************************)
(* Encoding and decoding file headers.                                     *)
(***************************************************************************)
Widths == {32, 64}
Encodings == {"Little", "Big"}

AddrLen(width) == width \div 8

\* a run of n distinct bytes starting after `from`
Ramp(n, from) == [i \in 1..n |-> from + i]

\* the integer fields of a FileHeader<A>
IntFields(entry_point, ph_offset, sh_offset, flags, two_byte_fields) ==
    [entry_point |-> entry_point, ph_offset |-> ph_offset,
     sh_offset |-> sh_offset, flags |-> flags,
     eh_size |-> two_byte_fields[1], phent_size |-> two_byte_fields[2],
     phnum |-> two_byte_fields[3], shent_size |-> two_byte_fields[4],
     shnum |-> two_byte_fields[5], shstrndx |-> two_byte_fields[6]]

IntProfiles(width) ==
    LET n == AddrLen(width)
    IN  { IntFields(Digits(5, n), Digits(10, n), Digits(11, n), U32(2),
                    <<0, 1, 1, 1, 1, 1>>),
          IntFields(Digits(\h400000, n), Digits(64, n), Digits(4096, n),
                    U32(0), <<64, 56, 2, 64, 3, 2>>),
          IntFields(Fill(n, 255), Fill(n, 255), Fill(n, 255), Fill(4, 255),
                    <<65535, 65535, 65535, 65535, 65535, 65535>>),
          IntFields(Ramp(n, \h10), Ramp(n, \h20), Ramp(n, \h30), Ramp(4, \h40),
                    <<\h5152, \h6162, \h7172, \h8182, \h9192, \hA1A2>>) }

FileHeader(type, machine, ints) ==
    [type |-> type, machine |-> machine, version |-> "One",
     entry_point |-> ints.entry_point, ph_offset |-> ints.ph_offset,
     sh_offset |-> ints.sh_offset, flags |-> ints.flags,
     eh_size |-> ints.eh_size, phent_size |-> ints.phent_size,
     phnum |-> ints.phnum, shent_size |-> ints.shent_size,
     shnum |-> ints.shnum, shstrndx |-> ints.shstrndx]

\* every Type variant, every Machine variant, sampled integer fields
FileHeaders(width) ==
    {FileHeader(t, m, ints) :
        t \in Variants(Type), m \in Variants(Machine),
        ints \in IntProfiles(width)}

\* tests::generate_file_header
KnownGoodFileHeader ==
    << \h7f, \h45, \h4c, \h46,
       \h01, \h01, \h01, \h00,
       \h01, \h00, \h00, \h00, \h00, \h00, \h00, \h00,
       \h00, \h00,
       \h03, \h00,
       \h01, \h00, \h00, \h00,
       \h05, \h00, \h00, \h00,
       \h0A, \h00, \h00, \h00,
       \h0B, \h00, \h00, \h00,
       \h02, \h00, \h00, \h00,
       \h00, \h00,
       \h01, \h00,
       \h01, \h00,
       \h01, \h00,
       \h01, \h00,
       \h01, \h00 >>

\* the 16 bytes in front of a file header: a valid block, or anything else
Prefixes == {SubSeq(KnownGoodFileHeader, 1, IdentLen), Fill(IdentLen, 255)}

\* the length of the bytes of a FileHeader<A> after its version field
RestLen(width) == 3 * AddrLen(width) + 4 + 12

Rests(width) == {Ramp(RestLen(width), \h10), Fill(RestLen(width), 0)}

TypeByteSamples == SampleBytes \cup {\h04, \hFE}
VersionByteSamples == {0, 1}

\* buffers in which the type field takes sampled values
TypeBuffers(width) ==
    {pre \o <<t1, t2>> \o m \o v \o rest \o tail :
        pre \in Prefixes, t1 \in TypeByteSamples, t2 \in TypeByteSamples,
        m \in {<<3, 0>>, <<0, 3>>},
        v \in {<<1, 0, 0, 0>>, <<0, 0, 0, 1>>},
        rest \in {Ramp(RestLen(width), \h10)}, tail \in Tails}

\* buffers in which the low byte of the machine field takes every value
MachineBuffers(width) ==
    {pre \o <<0, 0>> \o m \o v \o rest :
        pre \in {Fill(IdentLen, 0)},
        m \in {<<lo, hi>> : lo \in Bytes, hi \in {0, 1}}
              \cup {<<hi, lo>> : lo \in Bytes, hi \in {0, 1}}
              \cup {<<\hCD, \hAB>>, <<\hAB, \hCD>>},
        v \in {<<1, 0, 0, 0>>, <<0, 0, 0, 1>>},
        rest \in Rests(width)}

\* buffers in which the bytes of the version field take sampled values
VersionBuffers(width) ==
    {pre \o <<1, 0>> \o <<3, 0>> \o <<v1, v2, v3, v4>> \o rest :
        pre \in Prefixes,
        v1 \in VersionByteSamples, v2 \in VersionByteSamples,
        v3 \in VersionByteSamples, v4 \in VersionByteSamples,
        rest \in Rests(width)}
    \cup
    {pre \o <<0, 1>> \o <<0, 3>> \o <<v1, v2, v3, v4>> \o rest :
        pre \in Prefixes,
        v1 \in VersionByteSamples, v2 \in VersionByteSamples,
        v3 \in VersionByteSamples, v4 \in VersionByteSamples,
        rest \in Rests(width)}

\* well-formed buffers cut short at every length
CutBuffers(width) ==
    {SubSeq(b, 1, n) :
        b \in {Fill(IdentLen, 0) \o <<0, 0>> \o m \o v \o rest :
                  m \in {<<3, 0>>, <<0, 3>>},
                  v \in {<<1, 0, 0, 0>>, <<0, 0, 0, 1>>},
                  rest \in {Ramp(RestLen(width), \h10)}},
        n \in 0..(IdentLen + 8 + RestLen(width))}

DecodeInputs(width) ==
    {KnownGoodFileHeader}
    \cup TypeBuffers(width) \cup MachineBuffers(width)
    \cup VersionBuffers(width) \cup CutBuffers(width)

\* the EiIdent values that can be constructed
EiIdents ==
    [ei_class : Variants(EiClass), ei_data : Variants(EiData),
     ei_version : Variants(EiVersion), ei_osabi : Variants(EiOsAbi),
     ei_abiversion : Variants(EiAbiVersion)]

ComposeHeaders ==
    {FileHeader(t, "X386", ints) :
        t \in {"None", "Exec"}, ints \in IntProfiles(32)}

HeaderInit ==
    /\ st = IdentStart
    /\ ser = NoField
    /\ dec = NoField
    /\ A \in Widths
    /\ E \in Encodings
    /\ \/ /\ phase = "encode"
          /\ input = <<>>
          /\ ident = NoField
          /\ hdr \in FileHeaders(A)
       \/ /\ phase = "decode"
          /\ input \in DecodeInputs(A)
          /\ ident = NoField
          /\ hdr = NoField
       \/ /\ phase = "compose"
          /\ A = 32
          /\ input = <<>>
          /\ ident \in EiIdents
          /\ hdr \in ComposeHeaders

\* Serialize::<A, E>::serialize(&hdr)
SerializeHeader ==
    /\ phase = "encode"
    /\ ser' = Serialize(A, E, hdr)
    /\ phase' = "encoded"
    /\ UNCHANGED <<input, st, A, E, hdr, ident, dec>>

\* FileHeaderParser::<A, E>::new().parse(block ++ serialized header)
ParseSerialized ==
    /\ phase = "encoded"
    /\ \E pre \in Prefixes :
          /\ input' = pre \o ser
          /\ dec' = FileHeaderParser(A, E, pre \o ser)
    /\ phase' = "encoded_decoded"
    /\ UNCHANGED <<st, A, E, hdr, ident, ser>>

\* FileHeaderParser::<A, E>::new().parse(&input)
ParseBuffer ==
    /\ phase = "decode"
    /\ dec' = FileHeaderParser(A, E, input)
    /\ phase' = "decoded"
    /\ UNCHANGED <<input, st, A, E, hdr, ident, ser>>

\* Serialize::<A, E>::serialize(&header) of the header just decoded
SerializeDecoded ==
    /\ phase = "decoded"
    /\ dec.status = "Match"
    /\ hdr' = dec.val
    /\ ser' = Serialize(A, E, dec.val)
    /\ phase' = "decoded_encoded"
    /\ UNCHANGED <<input, st, A, E, ident, dec>>

\* Vec::<u8>::from(ElfHeader32Bit::<E>::new(ident, hdr, vec![], vec![]))
ComposeBytes ==
    /\ phase = "compose"
    /\ ser' = ElfHeader32BitToBytes(E, ident, hdr)
    /\ phase' = "composed"
    /\ UNCHANGED <<input, st, A, E, hdr, ident, dec>>

\* EiIdentParser.parse(the bytes of the composite)
ParseComposed ==
    /\ phase = "composed"
    /\ input' = ser
    /\ dec' = EiIdentParser(ser)
    /\ phase' = "composed_decoded"
    /\ UNCHANGED <<st, A, E, hdr, ident, ser>>

HeaderNext ==
    \/ SerializeHeader
    \/ ParseSerialized
    \/ ParseBuffer
    \/ SerializeDecoded
    \/ ComposeBytes
    \/ ParseComposed

SpecHeader == HeaderInit /\ [][HeaderNext]_vars

(***************************************************************************)
(* Properties of the file-header decode and encode, checked under          *)
(* SpecHeader.                                                             *)
(***************************************************************************)
\* the little-endian u16 at offset o of a buffer
LE16At(buf, o) == buf[o + 1] + 256 * buf[o + 2]

\* the big-endian u16 at offset o of a buffer
BE16At(buf, o) == 256 * buf[o + 1] + buf[o + 2]

\* the digits of the little-endian n-byte integer at offset o of a buffer
LEWideAt(buf, o, n) == [i \in 1..n |-> buf[o + n + 1 - i]]

\* the length of the file-header region after the identification block
FileHeaderLen(width) == IF width = 32 THEN 36 ELSE 48

\* C1: FileHeaderParser<u32, LittleEndian> decodes the known-good buffer to
\* FileHeader{None, X386, One, 5, 10, 11, 2, 0, 1, 1, 1, 1, 1}, and in general
\* reads type at 16, machine at 18, version at 20, entry at 24, phoff at 28,
\* shoff at 32, flags at 36, then six u16 fields, all least significant byte
\* first.
C1_FileHeader32LittleEndian ==
    (phase = "decoded" /\ A = 32 /\ E = "Little") =>
        /\ input = KnownGoodFileHeader =>
              dec = Match(52,
                      [type |-> "None", machine |-> "X386", version |-> "One",
                       entry_point |-> <<0, 0, 0, 5>>,
                       ph_offset |-> <<0, 0, 0, 10>>,
                       sh_offset |-> <<0, 0, 0, 11>>,
                       flags |-> <<0, 0, 0, 2>>,
                       eh_size |-> 0, phent_size |-> 1, phnum |-> 1,
                       shent_size |-> 1, shnum |-> 1, shstrndx |-> 1])
        /\ dec.status = "Match" =>
              /\ dec.rem = 52
              /\ <<LE16At(input, 16), dec.val.type>>
                    \in {Type[i] : i \in 1..Len(Type)}
              /\ <<LE16At(input, 18), dec.val.machine>>
                    \in {MachineTryFrom[i] : i \in 1..Len(MachineTryFrom)}
              /\ LEWideAt(input, 20, 4) = <<0, 0, 0, 1>>
              /\ dec.val.version = "One"
              /\ dec.val.entry_point = LEWideAt(input, 24, 4)
              /\ dec.val.ph_offset = LEWideAt(input, 28, 4)
              /\ dec.val.sh_offset = LEWideAt(input, 32, 4)
              /\ dec.val.flags = LEWideAt(input, 36, 4)
              /\ dec.val.eh_size = LE16At(input, 40)
              /\ dec.val.phent_size = LE16At(input, 42)
              /\ dec.val.phnum = LE16At(input, 44)
              /\ dec.val.shent_size = LE16At(input, 46)
              /\ dec.val.shnum = LE16At(input, 48)
              /\ dec.val.shstrndx = LE16At(input, 50)

\* the known-good buffer has been decoded by FileHeaderParser<u32, LittleEndian>
C1_Witness ==
    /\ phase = "decoded" /\ A = 32 /\ E = "Little"
    /\ input = KnownGoodFileHeader
    /\ dec.status = "Match"

\* C2: for each width and encoding and every FileHeader value h, decoding a
\* 16-byte block followed by serialize(h) matches with a header equal to h.
C2_DecodeAfterEncode ==
    phase = "encoded_decoded" =>
        /\ dec.status = "Match"
        /\ dec.val = hdr

\* C3: whenever FileHeaderParser matches a buffer with header h, serialize(h)
\* is byte for byte the file-header region of the buffer.
C3_EncodeAfterDecode ==
    phase = "decoded_encoded" =>
        ser = SubSeq(input, IdentLen + 1, IdentLen + FileHeaderLen(A))

\* C4: the bytes of a composite ElfHeader32Bit are the 16-byte identification
\* block (magic, class, data encoding, version, osabi, abiversion, 7 padding
\* bytes) followed by the 36 file-header bytes, 52 bytes in all, and
\* EiIdentParser decodes them back to the same EiIdent.
C4_CompositeBytes ==
    /\ phase \in {"composed", "composed_decoded"} =>
          /\ Len(ser) = 52
          /\ SubSeq(ser, 1, 4) = Magic
          /\ ser[5] = Discriminant(EiClass, ident.ei_class)
          /\ ser[6] = Discriminant(EiData, ident.ei_data)
          /\ ser[7] = Discriminant(EiVersion, ident.ei_version)
          /\ ser[8] = Discriminant(EiOsAbi, ident.ei_osabi)
          /\ ser[9] = Discriminant(EiAbiVersion, ident.ei_abiversion)
          /\ SubSeq(ser, 17, 52) = Serialize(32, E, hdr)
    /\ phase = "composed_decoded" =>
          /\ dec.status = "Match"
          /\ dec.val = ident

\* C5: a FileHeader<u64> with entry_point 0x400000, ph_offset 64 and
\* sh_offset 4096 serializes big-endian to 48 bytes, type(2) machine(2)
\* version(4) entry(8) phoff(8) shoff(8) flags(4) and six u16, each most
\* significant byte first, and decodes back to an identical value.
C5_BigEndian64 ==
    (/\ phase \in {"encoded", "encoded_decoded"}
     /\ A = 64 /\ E = "Big"
     /\ hdr.entry_point = <<0, 0, 0, 0, 0, \h40, 0, 0>>
     /\ hdr.ph_offset = <<0, 0, 0, 0, 0, 0, 0, 64>>
     /\ hdr.sh_offset = <<0, 0, 0, 0, 0, 0, \h10, 0>>) =>
        /\ Len(ser) = 48
        /\ BE16At(ser, 0) = Discriminant(Type, hdr.type)
        /\ BE16At(ser, 2) = Discriminant(Machine, hdr.machine)
        /\ SubSeq(ser, 5, 8) = <<0, 0, 0, 1>>
        /\ SubSeq(ser, 9, 16) = <<0, 0, 0, 0, 0, \h40, 0, 0>>
        /\ SubSeq(ser, 17, 24) = <<0, 0, 0, 0, 0, 0, 0, 64>>
        /\ SubSeq(ser, 25, 32) = <<0, 0, 0, 0, 0, 0, \h10, 0>>
        /\ SubSeq(ser, 33, 36) = hdr.flags
        /\ BE16At(ser, 36) = hdr.eh_size
        /\ BE16At(ser, 38) = hdr.phent_size
        /\ BE16At(ser, 40) = hdr.phnum
        /\ BE16At(ser, 42) = hdr.shent_size
        /\ BE16At(ser, 44) = hdr.shnum
        /\ BE16At(ser, 46) = hdr.shstrndx
        /\ phase = "encoded_decoded" =>
              /\ dec.status = "Match"
              /\ dec.rem = 64
              /\ dec.val = hdr

\* the u16 at offset o of a buffer, read in the given byte order
U16At(data, buf, o) ==
    IF data = "Little" THEN LE16At(buf, o) ELSE BE16At(buf, o)

\* the digits, most significant first, of the n-byte integer at offset o of a
\* buffer, read in the given byte order
WideAt(data, buf, o, n) ==
    IF data = "Little" THEN LEWideAt(buf, o, n) ELSE SubSeq(buf, o + 1, o + n)

\* the type and version fields of the buffer are valid in byte order E
ValidTypeAndVersion ==
    /\ Len(input) >= 24
    /\ U16At(E, input, 16) \in Codes(Type)
    /\ WideAt(E, input, 20, 4) = <<0, 0, 0, 1>>

\* the machine codes the program names
KnownMachineCodes == Codes(Machine) \cup Codes(MachineTryFrom)

\* C11: an unrecognized machine code, such as 0xABCD, in either byte order, in
\* an otherwise valid file header never fails the decode: the header matches
\* with machine = Unknown(code).
C11_UnknownMachineDecodes ==
    (/\ phase = "decoded"
     /\ input \in MachineBuffers(A)
     /\ ValidTypeAndVersion
     /\ U16At(E, input, 18) \notin KnownMachineCodes) =>
        /\ dec.status = "Match"
        /\ dec.val.machine = <<"Unknown", U16At(E, input, 18)>>

ElfTypeCodes ==
    { <<\h0000, "None">>, <<\h0001, "Rel">>, <<\h0002, "Exec">>,
      <<\h0003, "Dyn">>, <<\h0004, "Core">>, <<\hFE00, "LoOs">>,
      <<\hFEFF, "HiOs">>, <<\hFF00, "LoProc">>, <<\hFFFF, "HiProc">> }

\* C13: the type field is a closed enumeration: the u16 at offset 16, read in
\* the decoder's byte order, decodes to None, Rel, Exec, Dyn, Core, LoOs, HiOs,
\* LoProc, HiProc for the codes 0, 1, 2, 3, 4, 0xFE00, 0xFEFF, 0xFF00, 0xFFFF,
\* and every other code fails the file-header decode.
C13_TypeClosed ==
    (phase = "decoded" /\ Len(input) >= 18) =>
        /\ dec.status = "Match" =>
              <<U16At(E, input, 16), dec.val.type>> \in ElfTypeCodes
        /\ U16At(E, input, 16) \notin {c[1] : c \in ElfTypeCodes} =>
              dec.status = "NoMatch"
        /\ (/\ input \in TypeBuffers(A)
            /\ U16At(E, input, 16) \in {c[1] : c \in ElfTypeCodes}
            /\ U16At(E, input, 18) \in Codes(MachineTryFrom)
            /\ WideAt(E, input, 20, 4) = <<0, 0, 0, 1>>) =>
               dec.status = "Match"

\* the decoder has matched a header whose type code is 0xFE00 and has
\* rejected nothing else of it
C13_Witness ==
    /\ phase = "decoded"
    /\ input \in TypeBuffers(A)
    /\ U16At(E, input, 16) = \hFE00
    /\ dec.status = "Match"
    /\ dec.val.type = "LoOs"

(***************************************************************************)
(* Program-header and section-header entries.                              *)
(***************************************************************************)
expect_u64(endianness, expected, buf, o) ==
    LET r == match_u64(endianness, buf, o)
    IN  IF r.status = "Match" /\ r.val = expected
        THEN Match(r.rem, expected)
        ELSE NoMatch(o)

\* parcel::take_n(match_u32(encoding), n): exactly n values or no match
RECURSIVE take_n_u32(_, _, _, _)
take_n_u32(n, endianness, buf, o) ==
    IF n = 0 THEN Match(o, <<>>)
    ELSE LET r == match_u32(endianness, buf, o)
         IN  IF r.status # "Match" THEN NoMatch(o)
             ELSE LET rest == take_n_u32(n - 1, endianness, buf, r.rem)
                  IN  IF rest.status # "Match" THEN NoMatch(o)
                      ELSE Match(rest.rem, <<r.val>> \o rest.val)

\* parcel::take_n(match_u64(encoding), n): exactly n values or no match
RECURSIVE take_n_u64(_, _, _, _)
take_n_u64(n, endianness, buf, o) ==
    IF n = 0 THEN Match(o, <<>>)
    ELSE LET r == match_u64(endianness, buf, o)
         IN  IF r.status # "Match" THEN NoMatch(o)
             ELSE LET rest == take_n_u64(n - 1, endianness, buf, r.rem)
                  IN  IF rest.status # "Match" THEN NoMatch(o)
                      ELSE Match(rest.rem, <<r.val>> \o rest.val)

\* the discriminants of the enum ProgramHeaderType
ProgramHeaderType ==
    << <<U32(0), "Null">>,     <<U32(1), "Load">>,   <<U32(2), "Dynamic">>,
       <<U32(3), "Interp">>,   <<U32(4), "Note">>,   <<U32(5), "ShLib">>,
       <<U32(6), "PhDr">>,     <<U32(7), "Tls">>,
       <<<<\h60, \h00, \h00, \h00>>, "LoOs">>,
       <<<<\h6F, \hFF, \hFF, \hFF>>, "HiOs">>,
       <<<<\h70, \h00, \h00, \h00>>, "LoProc">>,
       <<<<\h7F, \hFF, \hFF, \hFF>>, "HiProc">>,
       <<<<\h64, \h74, \hE5, \h50>>, "GnuEhFrame">>,
       <<<<\h64, \h74, \hE5, \h51>>, "GnuStack">>,
       <<<<\h64, \h74, \hE5, \h52>>, "GnuRelro">> >>

\* parcel::one_of over expect_u32(data, code).map(|_| variant)
RECURSIVE one_of_u32(_, _, _, _, _)
one_of_u32(table, i, data, buf, o) ==
    IF i > Len(table) THEN NoMatch(o)
    ELSE LET r == expect_u32(data, table[i][1], buf, o)
         IN  IF r.status = "Match" THEN Match(r.rem, table[i][2])
             ELSE one_of_u32(table, i + 1, data, buf, o)

\* ProgramHeaderTypeParser::parse_type
ProgramHeaderTypeParser(data, buf, o) ==
    one_of_u32(ProgramHeaderType, 1, data, buf, o)

ProgramHeaderParserSwapped(width, data, buf, o) ==
    LET type == ProgramHeaderTypeParser(data, buf, o)
    IN  IF type.status # "Match" THEN NoMatch(o)
        ELSE IF width = 32 THEN
            LET four_byte_fields == take_n_u32(7, data, buf, type.rem)
            IN  IF four_byte_fields.status # "Match" THEN NoMatch(o) ELSE
                Match(four_byte_fields.rem,
                      [type |-> type.val,
                       offset |-> four_byte_fields.val[1],
                       vaddr |-> four_byte_fields.val[2],
                       paddr |-> four_byte_fields.val[3],
                       filesz |-> four_byte_fields.val[4],
                       memsz |-> four_byte_fields.val[5],
                       flags |-> four_byte_fields.val[7],
                       align |-> four_byte_fields.val[6]])
        ELSE
            LET flags == match_u32(data, buf, type.rem)
            IN  IF flags.status # "Match" THEN NoMatch(o) ELSE
            LET eight_byte_fields == take_n_u64(6, data, buf, flags.rem)
            IN  IF eight_byte_fields.status # "Match" THEN NoMatch(o) ELSE
                Match(eight_byte_fields.rem,
                      [type |-> type.val,
                       flags |-> flags.val,
                       offset |-> eight_byte_fields.val[1],
                       vaddr |-> eight_byte_fields.val[2],
                       paddr |-> eight_byte_fields.val[3],
                       filesz |-> eight_byte_fields.val[4],
                       memsz |-> eight_byte_fields.val[5],
                       align |-> eight_byte_fields.val[6]])

\* ProgramHeaderParser<A, E>::parse
ProgramHeaderParser(width, data, buf, o) ==
    LET type == ProgramHeaderTypeParser(data, buf, o)
    IN  IF type.status # "Match" THEN NoMatch(o)
        ELSE IF width = 32 THEN
            LET four_byte_fields == take_n_u32(7, data, buf, type.rem)
            IN  IF four_byte_fields.status # "Match" THEN NoMatch(o) ELSE
                Match(four_byte_fields.rem,
                      [type |-> type.val,
                       offset |-> four_byte_fields.val[1],
                       vaddr |-> four_byte_fields.val[2],
                       paddr |-> four_byte_fields.val[3],
                       filesz |-> four_byte_fields.val[4],
                       memsz |-> four_byte_fields.val[5],
                       flags |-> four_byte_fields.val[6],
                       align |-> four_byte_fields.val[7]])
        ELSE
            LET flags == match_u32(data, buf, type.rem)
            IN  IF flags.status # "Match" THEN NoMatch(o) ELSE
            LET eight_byte_fields == take_n_u64(6, data, buf, flags.rem)
            IN  IF eight_byte_fields.status # "Match" THEN NoMatch(o) ELSE
                Match(eight_byte_fields.rem,
                      [type |-> type.val,
                       flags |-> flags.val,
                       offset |-> eight_byte_fields.val[1],
                       vaddr |-> eight_byte_fields.val[2],
                       paddr |-> eight_byte_fields.val[3],
                       filesz |-> eight_byte_fields.val[4],
                       memsz |-> eight_byte_fields.val[5],
                       align |-> eight_byte_fields.val[6]])

\* the discriminants of the enum ShType
ShType ==
    << <<U32(\h00), "Null">>,      <<U32(\h01), "ProgBits">>,
       <<U32(\h02), "SymTab">>,    <<U32(\h03), "StrTab">>,
       <<U32(\h04), "Rela">>,      <<U32(\h05), "Hash">>,
       <<U32(\h06), "Dynamic">>,   <<U32(\h07), "Note">>,
       <<U32(\h08), "NoBits">>,    <<U32(\h09), "Rel">>,
       <<U32(\h0A), "ShLib">>,     <<U32(\h0B), "DynSym">>,
       <<U32(\h0E), "InitArray">>, <<U32(\h0F), "FiniArray">>,
       <<U32(\h10), "PreInitArray">>, <<U32(\h11), "Group">>,
       <<U32(\h12), "SymTabShndx">>,  <<U32(\h13), "Num">> >>

\* ShTypeParser::parse: one_of over the table, or any u32 as ShType::Null
ShTypeParser(data, buf, o) ==
    LET r == one_of_u32(ShType, 1, data, buf, o)
    IN  IF r.status = "Match" THEN r
        ELSE LET any == match_u32(data, buf, o)
             IN  IF any.status = "Match" THEN Match(any.rem, "Null")
                 ELSE any

\* ShFlags32Bit::Write / ShFlags64Bit::Write
ShFlagsWrite == 1

\* ShFlagsParser<A, E>::parse: Write for the value 1, Other for any other
ShFlagsParser(width, data, buf, o) ==
    LET r == IF width = 32
             THEN expect_u32(data, U32(ShFlagsWrite), buf, o)
             ELSE expect_u64(data, U64(ShFlagsWrite), buf, o)
    IN  IF r.status = "Match" THEN Match(r.rem, "Write")
        ELSE LET any == match_addr(width, data, buf, o)
             IN  IF any.status = "Match" THEN Match(any.rem, "Other")
                 ELSE any

SectionHeaderParserSwapped(width, data, buf, o) ==
    LET sh_name == match_u32(data, buf, o)
    IN  IF sh_name.status # "Match" THEN NoMatch(o) ELSE
    LET sh_type == ShTypeParser(data, buf, sh_name.rem)
    IN  IF sh_type.status # "Match" THEN NoMatch(o) ELSE
    LET sh_flags == ShFlagsParser(width, data, buf, sh_type.rem)
    IN  IF sh_flags.status # "Match" THEN NoMatch(o)
        ELSE IF width = 32 THEN
            LET u32_seq == take_n_u32(7, data, buf, sh_flags.rem)
            IN  IF u32_seq.status # "Match" THEN NoMatch(o) ELSE
                Match(u32_seq.rem,
                      [sh_name |-> sh_name.val,
                       sh_type |-> sh_type.val,
                       sh_flags |-> sh_flags.val,
                       sh_addr |-> u32_seq.val[1],
                       sh_offset |-> u32_seq.val[2],
                       sh_size |-> u32_seq.val[3],
                       sh_link |-> u32_seq.val[4],
                       sh_info |-> u32_seq.val[5],
                       sh_addr_align |-> u32_seq.val[6],
                       sh_entsize |-> u32_seq.val[7]])
        ELSE
            LET u64_seq_one == take_n_u64(3, data, buf, sh_flags.rem)
            IN  IF u64_seq_one.status # "Match" THEN NoMatch(o) ELSE
            LET u32_seq_one == take_n_u32(2, data, buf, u64_seq_one.rem)
            IN  IF u32_seq_one.status # "Match" THEN NoMatch(o) ELSE
            LET u64_seq_two == take_n_u64(2, data, buf, u32_seq_one.rem)
            IN  IF u64_seq_two.status # "Match" THEN NoMatch(o) ELSE
                Match(u64_seq_two.rem,
                      [sh_name |-> sh_name.val,
                       sh_type |-> sh_type.val,
                       sh_flags |-> sh_flags.val,
                       sh_addr |-> u64_seq_one.val[1],
                       sh_offset |-> u64_seq_one.val[2],
                       sh_size |-> u64_seq_one.val[3],
                       sh_link |-> u32_seq_one.val[2],
                       sh_info |-> u32_seq_one.val[1],
                       sh_addr_align |-> u64_seq_two.val[1],
                       sh_entsize |-> u64_seq_two.val[2]])

\* SectionHeaderParser<A, E>::parse
SectionHeaderParser(width, data, buf, o) ==
    LET sh_name == match_u32(data, buf, o)
    IN  IF sh_name.status # "Match" THEN NoMatch(o) ELSE
    LET sh_type == ShTypeParser(data, buf, sh_name.rem)
    IN  IF sh_type.status # "Match" THEN NoMatch(o) ELSE
    LET sh_flags == ShFlagsParser(width, data, buf, sh_type.rem)
    IN  IF sh_flags.status # "Match" THEN NoMatch(o)
        ELSE IF width = 32 THEN
            LET u32_seq == take_n_u32(7, data, buf, sh_flags.rem)
            IN  IF u32_seq.status # "Match" THEN NoMatch(o) ELSE
                Match(u32_seq.rem,
                      [sh_name |-> sh_name.val,
                       sh_type |-> sh_type.val,
                       sh_flags |-> sh_flags.val,
                       sh_addr |-> u32_seq.val[1],
                       sh_offset |-> u32_seq.val[2],
                       sh_size |-> u32_seq.val[3],
                       sh_link |-> u32_seq.val[4],
                       sh_info |-> u32_seq.val[5],
                       sh_addr_align |-> u32_seq.val[6],
                       sh_entsize |-> u32_seq.val[7]])
        ELSE
            LET u64_seq_one == take_n_u64(3, data, buf, sh_flags.rem)
            IN  IF u64_seq_one.status # "Match" THEN NoMatch(o) ELSE
            LET u32_seq_one == take_n_u32(2, data, buf, u64_seq_one.rem)
            IN  IF u32_seq_one.status # "Match" THEN NoMatch(o) ELSE
            LET u64_seq_two == take_n_u64(2, data, buf, u32_seq_one.rem)
            IN  IF u64_seq_two.status # "Match" THEN NoMatch(o) ELSE
                Match(u64_seq_two.rem,
                      [sh_name |-> sh_name.val,
                       sh_type |-> sh_type.val,
                       sh_flags |-> sh_flags.val,
                       sh_addr |-> u64_seq_one.val[1],
                       sh_offset |-> u64_seq_one.val[2],
                       sh_size |-> u64_seq_one.val[3],
                       sh_link |-> u32_seq_one.val[1],
                       sh_info |-> u32_seq_one.val[2],
                       sh_addr_align |-> u64_seq_two.val[1],
                       sh_entsize |-> u64_seq_two.val[2]])

(***************************************************************************)
(* ElfHeaderParser: the identification block, the file header, phnum       *)
(* program-header entries, shnum section-header entries, then the          *)
(* composite.  A failing stage ends the parse; a table that stops short    *)
(* leaves the slice at the entry that did not match.                       *)
(***************************************************************************)
\* ElfHeader32Bit::new / ElfHeader64Bit::new
ElfHeader(ei_ident, file_header, program_headers, section_headers) ==
    [ei_ident |-> ei_ident, file_header |-> file_header,
     program_headers |-> program_headers,
     section_headers |-> section_headers]

ElfStart ==
    [pc |-> "ident", off |-> 0, failedAt |-> NoField, result |-> NoField,
     ei |-> NoField, fh |-> NoField, phs |-> <<>>, shs |-> <<>>]

ElfFailContinue(s, r) ==
    [s EXCEPT !.pc = IF s.pc = "ident" THEN "file_header" ELSE "done",
              !.failedAt = s.pc, !.result = r]

ElfFail(s, r) ==
    [s EXCEPT !.pc = "done", !.failedAt = s.pc, !.result = r]

\* EiIdentParser.parse(&input)?: r is its result
IdentStage(s, r) ==
    IF r.status = "Match"
    THEN [s EXCEPT !.pc = "file_header", !.ei = r.val]
    ELSE ElfFail(s, NoMatch(r.rem))

\* FileHeaderParser::<A, E>::new() on preparse_input: r is its result
FileHeaderStage(s, r) ==
    IF r.status = "Match"
    THEN [s EXCEPT !.pc = "program_headers", !.off = r.rem, !.fh = r.val]
    ELSE ElfFail(s, r)

ProgramHeaderStageReversed(s, r) ==
    IF Len(s.phs) = s.fh.phnum
    THEN [s EXCEPT !.pc = "section_headers"]
    ELSE IF r.status = "Match"
         THEN [s EXCEPT !.off = r.rem, !.phs = <<r.val>> \o s.phs]
         ELSE ElfFail(s, NoMatch(s.off))

\* ProgramHeaderParser::<A, E>::new().take_n(phnum): r is the result of the
\* entry parser at the slice the table has reached
ProgramHeaderStage(s, r) ==
    IF Len(s.phs) = s.fh.phnum
    THEN [s EXCEPT !.pc = "section_headers"]
    ELSE IF r.status = "Match"
         THEN [s EXCEPT !.off = r.rem, !.phs = Append(s.phs, r.val)]
         ELSE ElfFail(s, NoMatch(s.off))

SectionHeaderStageStride(s, r) ==
    IF Len(s.shs) = s.fh.shnum
    THEN [s EXCEPT !.pc = "done",
                   !.result = Match(s.off,
                                    ElfHeader(s.ei, s.fh, s.phs, s.shs))]
    ELSE IF r.status = "Match"
         THEN [s EXCEPT !.off = s.off + s.fh.shent_size,
                        !.shs = Append(s.shs, r.val)]
         ELSE ElfFail(s, NoMatch(s.off))

\* SectionHeaderParser::<A, E>::new().take_n(shnum), then the composite
SectionHeaderStage(s, r) ==
    IF Len(s.shs) = s.fh.shnum
    THEN [s EXCEPT !.pc = "done",
                   !.result = Match(s.off,
                                    ElfHeader(s.ei, s.fh, s.phs, s.shs))]
    ELSE IF r.status = "Match"
         THEN [s EXCEPT !.off = r.rem, !.shs = Append(s.shs, r.val)]
         ELSE ElfFail(s, NoMatch(s.off))

\* one stage of ElfHeaderParser<A, E>::parse
ElfStep(width, data, buf, s) ==
    CASE s.pc = "ident" -> IdentStage(s, EiIdentParser(buf))
      [] s.pc = "file_header" ->
            FileHeaderStage(s, FileHeaderParser(width, data, buf))
      [] s.pc = "program_headers" ->
            ProgramHeaderStage(s, ProgramHeaderParser(width, data, buf, s.off))
      [] s.pc = "section_headers" ->
            SectionHeaderStage(s, SectionHeaderParser(width, data, buf, s.off))

RECURSIVE ElfRun(_, _, _, _)
ElfRun(width, data, buf, s) ==
    IF s.pc = "done" THEN s ELSE ElfRun(width, data, buf,
                                        ElfStep(width, data, buf, s))

\* ElfHeaderParser::<A, E>::new().parse(input)
ElfHeaderParser(width, data, buf) ==
    ElfRun(width, data, buf, ElfStart).result

(***************************************************************************)
(* ElfHeaderParser run on a buffer, one stage at a time.                   *)
(***************************************************************************)
\* the bytes a composite's header takes: the block and the file header
HeaderLen(width) == IF width = 32 THEN 52 ELSE 64

\* the bytes ProgramHeaderParser<A, E> reads for one entry
PhEntSize(width) == IF width = 32 THEN 32 ELSE 56

\* the bytes SectionHeaderParser<A, E> reads for one entry
ShEntSize(width) == IF width = 32 THEN 40 ELSE 64

RECURSIVE Concat(_)
Concat(ss) == IF ss = <<>> THEN <<>> ELSE Head(ss) \o Concat(Tail(ss))

\* known and unknown codes of the type field of a program-header entry
PhTypeSamples ==
    {U32(0), U32(1), <<\h64, \h74, \hE5, \h51>>, <<\h7F, \hFF, \hFF, \hFF>>,
     U32(8), <<\h64, \h74, \hE5, \h53>>}

\* known and unknown codes of the type field of a section-header entry
ShTypeSamples ==
    {U32(0), U32(1), U32(\h13), U32(\h0C), U32(\h14),
     <<\h70, \h00, \h00, \h01>>}

\* the k-th program-header entry of a table: its type code, then bytes that
\* differ from field to field and from entry to entry
PhEntry(width, data, code, k) ==
    WideToBytes(data, code) \o Ramp(PhEntSize(width) - 4, 60 * k)

\* the k-th section-header entry of a table
ShEntry(width, data, code, k) ==
    Ramp(4, 60 * k)
    \o WideToBytes(data, code)
    \o WideToBytes(data, Digits(IF k % 2 = 1 THEN 1 ELSE 6, AddrLen(width)))
    \o Ramp(ShEntSize(width) - 8 - AddrLen(width), 60 * k + 4)

\* tables of up to MaxEntries entries: one entry takes a sampled type code,
\* the others the code 1
PhTables(width, data) ==
    {<<>>}
    \cup UNION {{[i \in 1..n |->
                    PhEntry(width, data, IF i = p THEN t ELSE U32(1), i)] :
                    p \in 1..n, t \in PhTypeSamples} : n \in 1..MaxEntries}

ShTables(width, data) ==
    {<<>>}
    \cup UNION {{[i \in 1..n |->
                    ShEntry(width, data, IF i = p THEN t ELSE U32(1), i)] :
                    p \in 1..n, t \in ShTypeSamples} : n \in 1..MaxEntries}

\* the file header of a buffer with phnum and shnum entries: its offsets and
\* sizes describe the buffer ("true", with gap bytes in front of the section
\* table) or are those of tests::generate_file_header ("test")
ElfFileHeader(width, phnum, shnum, profile, gap) ==
    LET n == AddrLen(width)
    IN  IF profile = "true"
        THEN FileHeader("Exec", "X386",
                 IntFields(Digits(5, n), Digits(HeaderLen(width), n),
                           Digits(HeaderLen(width) + phnum * PhEntSize(width)
                                  + gap, n),
                           U32(2),
                           <<HeaderLen(width), PhEntSize(width), phnum,
                             ShEntSize(width), shnum, 0>>))
        ELSE FileHeader("None", "X386",
                 IntFields(Digits(5, n), Digits(10, n), Digits(11, n), U32(2),
                           <<0, 1, phnum, 1, shnum, 1>>))

\* the block that names the class and data encoding of the parser
ElfIdent(width, data) ==
    IdentBlock(IF width = 32 THEN 1 ELSE 2, IF data = "Little" THEN 1 ELSE 2,
               1, 0, 0, Fill(PaddingLen, 0))

ElfBuffer(width, data, pht, sht, profile, gap) ==
    ElfIdent(width, data)
    \o Serialize(width, data,
                 ElfFileHeader(width, Len(pht), Len(sht), profile, gap))
    \o Concat(pht) \o Fill(gap, \hEE) \o Concat(sht)

GapLen == 8

\* whole files: a header, a program-header table, a section-header table
WholeBuffers(width, data) ==
    {ElfBuffer(width, data, pht, sht, lay[1], lay[2]) \o t :
        pht \in PhTables(width, data), sht \in ShTables(width, data),
        lay \in {<<"true", 0>>, <<"true", GapLen>>, <<"test", 0>>},
        t \in {<<>>}}

\* a file with one entry in each table
OneEntryBuffer(width, data) ==
    ElfBuffer(width, data, <<PhEntry(width, data, U32(1), 1)>>,
              <<ShEntry(width, data, U32(1), 1)>>, "true", 0)

\* the one-entry file cut short at every length
CutElfBuffers(width, data) ==
    {SubSeq(OneEntryBuffer(width, data), 1, n) :
        n \in 0..Len(OneEntryBuffer(width, data))}

\* the one-entry file with one byte of its block or file header replaced
PatchedBuffers(width, data) ==
    {[b EXCEPT ![p[1]] = p[2]] :
        b \in {OneEntryBuffer(width, data)},
        p \in {<<1, 0>>, <<5, 1>>, <<5, 2>>, <<5, 3>>, <<6, 1>>, <<6, 2>>,
               <<6, 0>>, <<7, 2>>, <<8, \h13>>, <<9, 7>>, <<16, 1>>,
               <<17, 9>>, <<18, 9>>, <<19, \hAB>>, <<20, \hAB>>,
               <<21, 2>>, <<24, 2>>}}

ElfInputs(width, data) ==
    WholeBuffers(width, data) \cup CutElfBuffers(width, data)
    \cup PatchedBuffers(width, data)

Init ==
    /\ A \in Widths
    /\ E \in Encodings
    /\ input \in ElfInputs(A, E)
    /\ st = ElfStart
    /\ hdr = NoField /\ ident = NoField /\ ser = NoField /\ dec = NoField
    /\ phase = "elf"

\* EiIdentParser.parse(&input)
ParseIdent ==
    /\ st.pc = "ident"
    /\ st' = IdentStage(st, EiIdentParser(input))
    /\ UNCHANGED <<input, A, E, hdr, ident, ser, dec, phase>>

\* FileHeaderParser::<A, E>::new() on the whole input
ParseFileHeader ==
    /\ st.pc = "file_header"
    /\ st' = FileHeaderStage(st, FileHeaderParser(A, E, input))
    /\ UNCHANGED <<input, A, E, hdr, ident, ser, dec, phase>>

\* one ProgramHeaderParser::<A, E>::new() of take_n(phnum)
ParseProgramHeader ==
    /\ st.pc = "program_headers"
    /\ Len(st.phs) < st.fh.phnum
    /\ st' = ProgramHeaderStage(st, ProgramHeaderParser(A, E, input, st.off))
    /\ UNCHANGED <<input, A, E, hdr, ident, ser, dec, phase>>

\* take_n(phnum) has its phnum entries
EndProgramHeaders ==
    /\ st.pc = "program_headers"
    /\ Len(st.phs) = st.fh.phnum
    /\ st' = ProgramHeaderStage(st, NoMatch(st.off))
    /\ UNCHANGED <<input, A, E, hdr, ident, ser, dec, phase>>

\* one SectionHeaderParser::<A, E>::new() of take_n(shnum)
ParseSectionHeader ==
    /\ st.pc = "section_headers"
    /\ Len(st.shs) < st.fh.shnum
    /\ st' = SectionHeaderStage(st, SectionHeaderParser(A, E, input, st.off))
    /\ UNCHANGED <<input, A, E, hdr, ident, ser, dec, phase>>

\* take_n(shnum) has its shnum entries: ElfHeader32Bit::new / 64Bit::new
BuildElfHeader ==
    /\ st.pc = "section_headers"
    /\ Len(st.shs) = st.fh.shnum
    /\ st' = SectionHeaderStage(st, NoMatch(st.off))
    /\ UNCHANGED <<input, A, E, hdr, ident, ser, dec, phase>>

Next ==
    \/ ParseIdent
    \/ ParseFileHeader
    \/ ParseProgramHeader
    \/ EndProgramHeaders
    \/ ParseSectionHeader
    \/ BuildElfHeader

Spec == Init /\ [][Next]_vars

(***************************************************************************)
(* Properties of ElfHeaderParser, checked under Spec.                      *)
(***************************************************************************)
ElfDone == phase = "elf" /\ st.pc = "done"
ElfMatched == ElfDone /\ st.result.status = "Match"
ElfFailed == ElfDone /\ st.result.status = "NoMatch"

\* ElfHeaderParser has ended after the block and the file header decoded
HeaderDecoded == ElfDone /\ st.failedAt \notin {"ident", "file_header"}

\* the offset of the phnum and shnum fields of the file header
PhnumAt(width) == IF width = 32 THEN 44 ELSE 56
ShnumAt(width) == IF width = 32 THEN 48 ELSE 60

\* the i-th entry-sized block after the header, and the j-th after the
\* program-header blocks
PhBlock(i) ==
    LET o == HeaderLen(A) + (i - 1) * PhEntSize(A)
    IN  SubSeq(input, o + 1, o + PhEntSize(A))

ShBlock(j) ==
    LET o == HeaderLen(A) + U16At(E, input, PhnumAt(A)) * PhEntSize(A)
             + (j - 1) * ShEntSize(A)
    IN  SubSeq(input, o + 1, o + ShEntSize(A))

\* C14: when ElfHeaderParser returns a composite, program_headers has exactly
\* phnum elements and section_headers exactly shnum, phnum = 0 and shnum = 0
\* included, and the i-th element of each is the decode of the i-th
\* entry-sized block of its table, in the order the blocks lie in the buffer.
C14_TablesComplete ==
    ElfMatched =>
        LET phs == st.result.val.program_headers
            shs == st.result.val.section_headers
        IN  /\ Len(phs) = U16At(E, input, PhnumAt(A))
            /\ Len(shs) = U16At(E, input, ShnumAt(A))
            /\ \A i \in 1..Len(phs) :
                  /\ ProgramHeaderParser(A, E, PhBlock(i), 0).status = "Match"
                  /\ phs[i] = ProgramHeaderParser(A, E, PhBlock(i), 0).val
                  /\ phs[i].align
                        = WideAt(E, PhBlock(i), PhEntSize(A) - AddrLen(A),
                                 AddrLen(A))
            /\ \A j \in 1..Len(shs) :
                  /\ SectionHeaderParser(A, E, ShBlock(j), 0).status = "Match"
                  /\ shs[j] = SectionHeaderParser(A, E, ShBlock(j), 0).val
                  /\ shs[j].sh_name = WideAt(E, ShBlock(j), 0, 4)

\* a composite with two program-header entries and two section-header entries
\* has been returned
C14_Witness ==
    /\ ElfMatched
    /\ U16At(E, input, PhnumAt(A)) = 2
    /\ U16At(E, input, ShnumAt(A)) = 2
    /\ Len(st.result.val.program_headers) = 2
    /\ Len(st.result.val.section_headers) = 2

\* the bytes the tables of the buffer need after the header
TablesLen ==
    U16At(E, input, PhnumAt(A)) * PhEntSize(A)
    + U16At(E, input, ShnumAt(A)) * ShEntSize(A)

\* the block and the file header decoded, and the buffer ends before the
\* end of its tables
TablesTruncated ==
    /\ HeaderDecoded
    /\ Len(input) < HeaderLen(A) + TablesLen

\* whole buffers whose only program-header entry has a type code that
\* ProgramHeaderType does not name
UnknownPhTypeBuffers(width, data) ==
    {ElfBuffer(width, data, <<PhEntry(width, data, t, 1)>>, <<>>, "true", 0) :
        t \in {U32(8), <<\h64, \h74, \hE5, \h53>>}}

\* C15: a valid block and file header followed by fewer bytes than phnum and
\* shnum entries need fails as truncated input: no panic, no composite with
\* fewer entries, and a failure that is not the failure of a buffer that has
\* all its bytes and fails for the value of a field.
C15_TruncatedTables ==
    TablesTruncated =>
        /\ st.result.status = "NoMatch"
        /\ \A b \in UnknownPhTypeBuffers(A, E) :
              ElfHeaderParser(A, E, b) # st.result

\* C16: no input crashes the decoder: on a buffer of any length, 0 to 15
\* bytes and 16 to 19 bytes with a valid block and type included,
\* ElfHeaderParser ends in a match or a failure, never in a panic.
C16_NoCrash ==
    ElfDone => st.result.status \in {"Match", "NoMatch"}

\* why the stage at which s failed on buf did not match: the buffer ends
\* before the bytes the stage reads, or a field holds a value not accepted
FailureReason(width, buf, s) ==
    LET need == CASE s.failedAt = "ident" -> IdentLen
                  [] s.failedAt = "file_header" -> HeaderLen(width)
                  [] s.failedAt = "program_headers" ->
                        s.off + PhEntSize(width)
                  [] s.failedAt = "section_headers" ->
                        s.off + ShEntSize(width)
    IN  IF Len(buf) < need THEN "TruncatedInput" ELSE "UnsupportedValue"

\* buffers that fail at each stage, for each reason
FailingProbes(width, data) ==
    PatchedBuffers(width, data) \cup UnknownPhTypeBuffers(width, data)
    \cup {SubSeq(OneEntryBuffer(width, data), 1, n) :
            n \in {0, 8, IdentLen, HeaderLen(width) - 1, HeaderLen(width),
                   HeaderLen(width) + PhEntSize(width) - 1,
                   HeaderLen(width) + PhEntSize(width),
                   HeaderLen(width) + PhEntSize(width) + ShEntSize(width) - 1}}

\* C17: a failed decode reports the stage that failed and whether the input
\* was too short or held an unsupported value: two buffers that fail at
\* different stages or for different reasons never yield the same failure.
C17_StructuredFailure ==
    ElfFailed =>
        \A b \in FailingProbes(A, E) :
            LET t == ElfRun(A, E, b, ElfStart)
            IN  (/\ t.result.status = "NoMatch"
                 /\ <<t.failedAt, FailureReason(A, b, t)>>
                       # <<st.failedAt, FailureReason(A, input, st)>>)
                    => t.result # st.result

\* the value of a sequence of base-256 digits, most significant first
RECURSIVE ToInt(_)
ToInt(d) ==
    IF d = <<>> THEN 0
    ELSE 256 * ToInt(SubSeq(d, 1, Len(d) - 1)) + d[Len(d)]

\* C18: the tables are read at the offsets the file header declares: the i-th
\* program-header entry of a composite is the decode of the bytes at
\* ph_offset + (i - 1) * entry size, the j-th section-header entry of the
\* bytes at sh_offset + (j - 1) * entry size.
C18_DeclaredOffsets ==
    ElfMatched =>
        LET fh == st.result.val.file_header
            phs == st.result.val.program_headers
            shs == st.result.val.section_headers
        IN  /\ \A i \in 1..Len(phs) :
                  Match(ToInt(fh.ph_offset) + i * PhEntSize(A), phs[i])
                     = ProgramHeaderParser(A, E, input,
                           ToInt(fh.ph_offset) + (i - 1) * PhEntSize(A))
            /\ \A j \in 1..Len(shs) :
                  Match(ToInt(fh.sh_offset) + j * ShEntSize(A), shs[j])
                     = SectionHeaderParser(A, E, input,
                           ToInt(fh.sh_offset) + (j - 1) * ShEntSize(A))

\* the type code of the i-th program-header block
PhTypeCode(i) == WideAt(E, PhBlock(i), 0, 4)

\* the type code of the j-th section-header block
ShTypeCode(j) == WideAt(E, ShBlock(j), 4, 4)

\* C19: the type of a program-header entry is an open enumeration: the 15
\* known codes decode to their variants, every other u32 decodes to
\* Unknown(code), and no type code fails the entry or the pipeline.
C19_ProgramHeaderTypeOpen ==
    (HeaderDecoded /\ Len(input) >= HeaderLen(A) + TablesLen) =>
        /\ st.result.status = "Match"
        /\ \A i \in 1..Len(st.result.val.program_headers) :
              IF PhTypeCode(i) \in Codes(ProgramHeaderType)
              THEN <<PhTypeCode(i), st.result.val.program_headers[i].type>>
                      \in {ProgramHeaderType[k] :
                              k \in 1..Len(ProgramHeaderType)}
              ELSE st.result.val.program_headers[i].type
                      \notin Variants(ProgramHeaderType)

\* C20: the type of a section-header entry is decoded faithfully: the 18 known
\* codes give their variants, any other code gives Unknown(code), and
\* ShType::Null is given only for the code 0.
C20_SectionTypeFaithful ==
    ElfMatched =>
        \A j \in 1..Len(st.result.val.section_headers) :
            /\ IF ShTypeCode(j) \in Codes(ShType)
               THEN <<ShTypeCode(j), st.result.val.section_headers[j].sh_type>>
                       \in {ShType[k] : k \in 1..Len(ShType)}
               ELSE st.result.val.section_headers[j].sh_type
                       \notin Variants(ShType)
            /\ st.result.val.section_headers[j].sh_type = "Null"
                  => ShTypeCode(j) = U32(0)

\* the on-disk flags value of the j-th section-header block
ShFlagsValue(j) == WideAt(E, ShBlock(j), 8, AddrLen(A))

\* the flags values whose bits are within WRITE, ALLOC and EXECINSTR
ShFlagsBitSets == 0..7

\* C21: the flags of a section-header entry are decoded losslessly as a bit
\* set: the WRITE, ALLOC and EXECINSTR bits of the on-disk value can be read
\* back from the decoded sh_flags, so no other combination of these bits
\* decodes to the same sh_flags value (0x2 and 0x6 do not share one value).
C21_ShFlagsLossless ==
    ElfMatched =>
        \A j \in 1..Len(st.result.val.section_headers) :
            \A f \in ShFlagsBitSets :
                ShFlagsParser(A, E,
                    WideToBytes(E, Digits(f, AddrLen(A))), 0).val
                  = st.result.val.section_headers[j].sh_flags
                    => f = ToInt(ShFlagsValue(j)) % 8

\* the class an identification block declares for the width of a parser
ClassOf(width) == IF width = 32 THEN "ThirtyTwoBit" ELSE "SixtyFourBit"

\* C22: a composite is decoded with the width and byte order its own
\* identification block records: whenever ElfHeaderParser<A, E> returns a
\* composite, its ei_ident.ei_class is the class of A and its ei_ident.ei_data
\* is the byte order E.
C22_LayoutMatchesIdent ==
    ElfMatched =>
        /\ st.result.val.ei_ident.ei_class = ClassOf(A)
        /\ st.result.val.ei_ident.ei_data = E

\* the stage that follows a stage of the pipeline
NextStage(pc) ==
    CASE pc = "ident" -> "file_header"
      [] pc = "file_header" -> "program_headers"
      [] pc = "program_headers" -> "section_headers"
      [] pc = "section_headers" -> "done"

ZeroEntries == {Fill(32, 0), Fill(56, 0)}

\* whole entries, each cut short at every length
EntryInputs(width, data) ==
    {Take(b, 0, n) :
        b \in ZeroEntries
              \cup {KnownGoodFileHeader}
              \cup {PhEntry(width, data, t, 1) \o <<0>> : t \in PhTypeSamples}
              \cup {ShEntry(width, data, t, k) \o <<0>> :
                       t \in ShTypeSamples, k \in {1, 2}},
        n \in 0..(ShEntSize(64) + 1)}

\* the offsets at which a slice starts
EntryOffsets == 0..(MaxExtra + 1)

EntryInit ==
    /\ A \in Widths
    /\ E \in Encodings
    /\ input \in EntryInputs(A, E)
    /\ \E o \in EntryOffsets : st = [pc |-> "slice", off |-> o]
    /\ hdr = NoField /\ ident = NoField /\ ser = NoField /\ dec = NoField
    /\ phase = "entry"

\* ProgramHeaderParser::<A, E>::new().parse(&input[off..])
ParseProgramEntry ==
    /\ phase = "entry"
    /\ dec' = ProgramHeaderParser(A, E, input, st.off)
    /\ phase' = "program_header"
    /\ UNCHANGED <<input, st, A, E, hdr, ident, ser>>

\* SectionHeaderParser::<A, E>::new().parse(&input[off..])
ParseSectionEntry ==
    /\ phase = "entry"
    /\ dec' = SectionHeaderParser(A, E, input, st.off)
    /\ phase' = "section_header"
    /\ UNCHANGED <<input, st, A, E, hdr, ident, ser>>

\* expect_bytes(expected).parse(&input[off..])
ExpectBytes ==
    /\ phase = "entry"
    /\ \E expected \in {Magic, <<0>>, <<0, 0, 0>>} :
          /\ hdr' = expected
          /\ dec' = expect_bytes(expected, input, st.off)
    /\ phase' = "expect_bytes"
    /\ UNCHANGED <<input, st, A, E, ident, ser>>

\* expect_u16(E, expected).parse(&input[off..])
ExpectU16 ==
    /\ phase = "entry"
    /\ \E expected \in {0, 1, \h0100} :
          /\ hdr' = expected
          /\ dec' = expect_u16(E, expected, input, st.off)
    /\ phase' = "expect_u16"
    /\ UNCHANGED <<input, st, A, E, ident, ser>>

\* expect_u32(E, expected).parse(&input[off..])
ExpectU32 ==
    /\ phase = "entry"
    /\ \E expected \in {U32(0), U32(1), <<1, 0, 0, 0>>} :
          /\ hdr' = expected
          /\ dec' = expect_u32(E, expected, input, st.off)
    /\ phase' = "expect_u32"
    /\ UNCHANGED <<input, st, A, E, ident, ser>>

\* expect_u64(E, expected).parse(&input[off..])
ExpectU64 ==
    /\ phase = "entry"
    /\ \E expected \in {U64(0), U64(1), <<1, 0, 0, 0, 0, 0, 0, 0>>} :
          /\ hdr' = expected
          /\ dec' = expect_u64(E, expected, input, st.off)
    /\ phase' = "expect_u64"
    /\ UNCHANGED <<input, st, A, E, ident, ser>>

EntryNext ==
    \/ ParseProgramEntry
    \/ ParseSectionEntry
    \/ ExpectBytes
    \/ ExpectU16
    \/ ExpectU32
    \/ ExpectU64

SpecEntry == EntryInit /\ [][EntryNext]_vars

(***************************************************************************)
(* Properties of the entry parsers and the primitives, checked under       *)
(* SpecEntry.                                                              *)
(***************************************************************************)
\* the n-byte integer at offset o of the slice
FieldAt(o, n) == WideAt(E, input, st.off + o, n)

\* C24: ProgramHeaderParser follows the on-disk layouts: for u32 it consumes
\* exactly 32 bytes as the 4-byte fields type, offset, vaddr, paddr, filesz,
\* memsz, flags, align; for u64 exactly 56 bytes as type(4), flags(4), then
\* offset, vaddr, paddr, filesz, memsz, align of 8 bytes each; an entry of
\* that many bytes with a known type code decodes; and 32 zero bytes decode,
\* 32-bit little-endian, to type Null with every other field 0.
C24_ProgramHeaderLayout ==
    phase = "program_header" =>
        /\ (dec.status = "Match" /\ A = 32) =>
              /\ dec.rem = st.off + 32
              /\ <<FieldAt(0, 4), dec.val.type>>
                    \in {ProgramHeaderType[k] : k \in 1..Len(ProgramHeaderType)}
              /\ dec.val.offset = FieldAt(4, 4)
              /\ dec.val.vaddr = FieldAt(8, 4)
              /\ dec.val.paddr = FieldAt(12, 4)
              /\ dec.val.filesz = FieldAt(16, 4)
              /\ dec.val.memsz = FieldAt(20, 4)
              /\ dec.val.flags = FieldAt(24, 4)
              /\ dec.val.align = FieldAt(28, 4)
        /\ (dec.status = "Match" /\ A = 64) =>
              /\ dec.rem = st.off + 56
              /\ <<FieldAt(0, 4), dec.val.type>>
                    \in {ProgramHeaderType[k] : k \in 1..Len(ProgramHeaderType)}
              /\ dec.val.flags = FieldAt(4, 4)
              /\ dec.val.offset = FieldAt(8, 8)
              /\ dec.val.vaddr = FieldAt(16, 8)
              /\ dec.val.paddr = FieldAt(24, 8)
              /\ dec.val.filesz = FieldAt(32, 8)
              /\ dec.val.memsz = FieldAt(40, 8)
              /\ dec.val.align = FieldAt(48, 8)
        /\ (/\ Len(input) >= st.off + (IF A = 32 THEN 32 ELSE 56)
            /\ FieldAt(0, 4) \in Codes(ProgramHeaderType)) =>
               dec.status = "Match"
        /\ (input = Fill(32, 0) /\ st.off = 0 /\ A = 32 /\ E = "Little") =>
              dec = Match(32, [type |-> "Null", offset |-> U32(0),
                               vaddr |-> U32(0), paddr |-> U32(0),
                               filesz |-> U32(0), memsz |-> U32(0),
                               flags |-> U32(0), align |-> U32(0)])

\* the 32 zero bytes have been decoded by the 32-bit little-endian parser
C24_Witness ==
    /\ phase = "program_header" /\ A = 32 /\ E = "Little"
    /\ input = Fill(32, 0) /\ st.off = 0
    /\ dec.status = "Match"

\* C25: SectionHeaderParser follows the on-disk layouts: for u32 it consumes
\* exactly 40 bytes as the 4-byte fields name, type, flags, addr, offset,
\* size, link, info, addralign, entsize; for u64 exactly 64 bytes as name(4),
\* type(4), flags(8), addr(8), offset(8), size(8), link(4), info(4),
\* addralign(8), entsize(8); sh_name is the raw u32 of the first 4 bytes and
\* sh_link and sh_info are 4-byte values in both widths.
C25_SectionHeaderLayout ==
    phase = "section_header" =>
        /\ (dec.status = "Match" /\ A = 32) =>
              /\ dec.rem = st.off + 40
              /\ dec.val.sh_name = FieldAt(0, 4)
              /\ dec.val.sh_addr = FieldAt(12, 4)
              /\ dec.val.sh_offset = FieldAt(16, 4)
              /\ dec.val.sh_size = FieldAt(20, 4)
              /\ dec.val.sh_link = FieldAt(24, 4)
              /\ dec.val.sh_info = FieldAt(28, 4)
              /\ dec.val.sh_addr_align = FieldAt(32, 4)
              /\ dec.val.sh_entsize = FieldAt(36, 4)
        /\ (dec.status = "Match" /\ A = 64) =>
              /\ dec.rem = st.off + 64
              /\ dec.val.sh_name = FieldAt(0, 4)
              /\ dec.val.sh_addr = FieldAt(16, 8)
              /\ dec.val.sh_offset = FieldAt(24, 8)
              /\ dec.val.sh_size = FieldAt(32, 8)
              /\ dec.val.sh_link = FieldAt(40, 4)
              /\ dec.val.sh_info = FieldAt(44, 4)
              /\ dec.val.sh_addr_align = FieldAt(48, 8)
              /\ dec.val.sh_entsize = FieldAt(56, 8)
        /\ dec.status = "Match" =>
              /\ (FieldAt(4, 4) \in Codes(ShType)) =>
                    <<FieldAt(4, 4), dec.val.sh_type>>
                       \in {ShType[k] : k \in 1..Len(ShType)}
              /\ dec.val.sh_flags = "Write"
                    <=> FieldAt(8, AddrLen(A)) = Digits(1, AddrLen(A))
        /\ Len(input) >= st.off + (IF A = 32 THEN 40 ELSE 64) <=>
              dec.status = "Match"

\* a 64-byte section-header entry has been decoded by the 64-bit parser
C25_Witness ==
    /\ phase = "section_header" /\ A = 64
    /\ Len(input) >= st.off + 64
    /\ dec.status = "Match"
    /\ dec.val.sh_link # dec.val.sh_info

\* the bytes expect_bytes, expect_u16, expect_u32 and expect_u64 consume
ExpectWidth ==
    CASE phase = "expect_bytes" -> Len(hdr)
      [] phase = "expect_u16" -> 2
      [] phase = "expect_u32" -> 4
      [] phase = "expect_u64" -> 8

\* C26: expect_bytes, expect_u16, expect_u32 and expect_u64 consume nothing
\* when they fail and exactly their width when they match: the result is
\* NoMatch with the slice it was given, also on a slice shorter than the
\* width, or Match with that slice advanced by len(literal), 2, 4 or 8 bytes.
C26_ExpectFrame ==
    phase \in {"expect_bytes", "expect_u16", "expect_u32", "expect_u64"} =>
        /\ \/ dec = NoMatch(st.off)
           \/ /\ dec.status = "Match"
              /\ dec.rem = st.off + ExpectWidth
              /\ dec.rem <= Len(input)
        /\ Len(input) < st.off + ExpectWidth => dec = NoMatch(st.off)

\* expect_u32 has failed on a slice that starts after the start of the buffer
\* and holds four bytes of another value
C26_Witness ==
    /\ phase = "expect_u32"
    /\ st.off > 0
    /\ Len(input) >= st.off + 4
    /\ dec = NoMatch(st.off)

\* the largest value of phnum and of shnum
MaxU16 == 65535

\* the steps ElfHeaderParser can still take from a state: the stages not yet
\* left and the entries not yet decoded
Remaining(s) ==
    CASE s.pc = "ident" -> 4 + 2 * MaxU16
      [] s.pc = "file_header" -> 3 + 2 * MaxU16
      [] s.pc = "program_headers" ->
            2 + (s.fh.phnum - Len(s.phs)) + s.fh.shnum
      [] s.pc = "section_headers" -> 1 + (s.fh.shnum - Len(s.shs))
      [] s.pc = "done" -> 0

\* C27: decoding always terminates: every step of ElfHeaderParser lowers the
\* number of steps that remain, so a parse ends after at most phnum
\* program-header entry decodes followed by at most shnum section-header
\* entry decodes, no stage being retried; and a parse that ends has reached a
\* final outcome, a composite or a failure.
C27_Terminates ==
    [][phase = "elf" =>
        /\ Remaining(st') < Remaining(st)
        /\ Remaining(st') >= 0
        /\ st'.pc \in {"program_headers", "section_headers"} =>
              /\ Len(st'.phs) <= st'.fh.phnum
              /\ Len(st'.shs) <= st'.fh.shnum
              /\ Len(st'.shs) > 0 => Len(st'.phs) = st'.fh.phnum
        /\ st'.pc = "done" => st'.result.status \in {"Match", "NoMatch"}
    ]_vars

(***************************************************************************)
(* The two machine tables, checked under SpecHeader.                       *)
(***************************************************************************)
\* C28: the machine decode table is the inverse of the machine encode table:
\* Machine::try_from(u16::from(m)) is Ok(m) for the machine m of every header
\* that is serialized, and u16::from(m) is c for every code c that a decode
\* turns into the machine m.
C28_MachineTablesInverse ==
    /\ phase = "encoded" =>
          MachineFromU16(Discriminant(Machine, hdr.machine))
              = [ok |-> TRUE, val |-> hdr.machine]
    /\ (phase = "decoded" /\ dec.status = "Match") =>
          Discriminant(Machine, dec.val.machine) = U16At(E, input, 18)

(***************************************************************************)
(* The bytes a composite consumes, checked under Spec.                     *)
(***************************************************************************)
\* values for the fields eh_size, phent_size and shent_size
SizeSamples == {<<0, 0, 0>>, <<52, 7, 9>>, <<65535, 65535, 65535>>}

\* the buffer with its eh_size, phent_size and shent_size fields replaced
WithSizes(buf, sizes) ==
    LET at(o, v) == [i \in {o + 1, o + 2} |-> U16ToBytes(E, v)[i - o]]
        eh == at(PhnumAt(A) - 4, sizes[1])
        ph == at(PhnumAt(A) - 2, sizes[2])
        sh == at(PhnumAt(A) + 2, sizes[3])
    IN  [i \in 1..Len(buf) |->
            IF i \in DOMAIN eh THEN eh[i]
            ELSE IF i \in DOMAIN ph THEN ph[i]
            ELSE IF i \in DOMAIN sh THEN sh[i]
            ELSE buf[i]]

\* C29: when ElfHeaderParser returns a composite, the remaining slice starts
\* at offset 52 + 32*phnum + 40*shnum of the input for 32-bit and at
\* 64 + 56*phnum + 64*shnum for 64-bit, the section entries start directly
\* after the last program entry, and the buffer with other values in its
\* eh_size, phent_size and shent_size fields decodes to a composite with the
\* same program_headers and section_headers and the same remaining slice.
C29_ConsumedBytes ==
    ElfMatched =>
        LET phnum == U16At(E, input, PhnumAt(A))
            shnum == U16At(E, input, ShnumAt(A))
            shstart == IF A = 32 THEN 52 + 32 * phnum ELSE 64 + 56 * phnum
        IN  /\ st.result.rem = IF A = 32 THEN 52 + 32 * phnum + 40 * shnum
                                          ELSE 64 + 56 * phnum + 64 * shnum
            /\ st.off = st.result.rem
            /\ shnum > 0 =>
                  st.result.val.section_headers[1]
                      = SectionHeaderParser(A, E, input, shstart).val
            /\ \A sizes \in SizeSamples :
                  LET other == ElfHeaderParser(A, E, WithSizes(input, sizes))
                  IN  /\ other.status = "Match"
                      /\ other.rem = st.result.rem
                      /\ other.val.program_headers
                            = st.result.val.program_headers
                      /\ other.val.section_headers
                            = st.result.val.section_headers

\* a composite with two entries in each table has been returned for a buffer
\* whose phent_size and shent_size are not the bytes an entry takes
C29_Witness ==
    /\ ElfMatched
    /\ Len(st.result.val.program_headers) = 2
    /\ Len(st.result.val.section_headers) = 2
    /\ U16At(E, input, PhnumAt(A) - 2) # PhEntSize(A)
    /\ U16At(E, input, PhnumAt(A) + 2) # ShEntSize(A)

(***************************************************************************)
(* The sixteen bytes in front of a file header, checked under SpecHeader.  *)
(***************************************************************************)
\* sixteen bytes to put in front of a file header: valid blocks of each class
\* and data encoding, and bytes that are no block
OtherBlocks ==
    Prefixes
    \cup {IdentBlock(c, d, 1, 0, 0, Fill(PaddingLen, 0)) :
             c \in {1, 2}, d \in {1, 2}}
    \cup {Fill(IdentLen, 0), Ramp(IdentLen, \h80)}

\* C30: FileHeaderParser skips the first 16 bytes of its buffer without
\* reading them: a buffer of at least 16 bytes and every buffer that agrees
\* with it from offset 16 on give the same outcome and the same FileHeader,
\* whatever the first 16 bytes hold.
C30_IgnoresIdentBlock ==
    (phase \in {"decoded", "encoded_decoded"} /\ Len(input) >= IdentLen) =>
        \A pre \in OtherBlocks :
            FileHeaderParser(A, E,
                             pre \o SubSeq(input, IdentLen + 1, Len(input)))
                = dec

\* a header has been decoded from a buffer whose first sixteen bytes are no
\* identification block
C30_Witness ==
    /\ phase = "decoded"
    /\ dec.status = "Match"
    /\ SubSeq(input, 1, IdentLen) = Fill(IdentLen, 255)

====
